---- MODULE Spec2Model ----
(***************************************************************************)
(* American checkers: board model, move rules engine, evaluator and        *)
(* alpha-beta search of precog-checkers, as state machines over the        *)
(* library's operations.                                                   *)
(***************************************************************************)
EXTENDS Integers, Sequences, FiniteSets, TLC

VARIABLES board, call, turn, plies, nodesEvaluated, state, heap

vars == <<board, call, turn, plies, nodesEvaluated, state, heap>>

(***************************************************************************)
(* types.ts                                                                *)
(***************************************************************************)
BOARD_SIZE == 8

Players == {"human", "agatha"}

PieceTypes == {"man", "king"}

Pos(r, c) == [row |-> r, col |-> c]

\* The absent piece (JavaScript null) as a record of the shape of a piece.
null == [player |-> "none", type |-> "none", position |-> Pos(-1, -1)]

Piece(p, t, r, c) == [player |-> p, type |-> t, position |-> Pos(r, c)]

positionsEqual(a, b) == a.row = b.row /\ a.col = b.col

isValidPosition(pos) ==
    /\ pos.row >= 0 /\ pos.row < BOARD_SIZE
    /\ pos.col >= 0 /\ pos.col < BOARD_SIZE

isPlayableSquare(row, col) == (row + col) % 2 = 1

Abs(x) == IF x < 0 THEN -x ELSE x

Max(a, b) == IF a >= b THEN a ELSE b

Min(a, b) == IF a <= b THEN a ELSE b

\* The value of a one-element set: { e(x) : x \in {v} } holds e for x bound to
\* v, as a const declaration binds a value computed once.
The(S) == CHOOSE x \in S : TRUE

RECURSIVE Flatten(_)
\* moves.push(...xs) over a loop: the concatenation of the pushed lists.
Flatten(ss) == IF Len(ss) = 0 THEN <<>> ELSE Head(ss) \o Flatten(Tail(ss))

(***************************************************************************)
(* game/board.ts                                                           *)
(***************************************************************************)
Rows == 0 .. (BOARD_SIZE - 1)

createEmptyBoard == [row \in Rows |-> [col \in Rows |-> null]]

placePiece(b, row, col, player, type) ==
    [b EXCEPT ![row][col] = Piece(player, type, row, col)]

createInitialBoard ==
    [row \in Rows |-> [col \in Rows |->
        IF isPlayableSquare(row, col)
        THEN IF row < 3 THEN Piece("agatha", "man", row, col)
             ELSE IF row > 4 THEN Piece("human", "man", row, col)
             ELSE null
        ELSE null]]

cloneBoard(b) ==
    [row \in DOMAIN b |-> [col \in DOMAIN b[row] |->
        IF b[row][col] # null
        THEN [player |-> b[row][col].player,
              type |-> b[row][col].type,
              position |-> [row |-> b[row][col].position.row,
                            col |-> b[row][col].position.col]]
        ELSE null]]

getPieceAt(b, pos) == IF ~isValidPosition(pos) THEN null ELSE b[pos.row][pos.col]

getOpponent(player) == IF player = "human" THEN "agatha" ELSE "human"

getForwardDirection(player) == IF player = "human" THEN -1 ELSE 1

\* shouldPromote without the test of the piece's type.
shouldPromote_anyType(piece, position) ==
    IF piece.player = "human" /\ position.row = 0 THEN TRUE
    ELSE IF piece.player = "agatha" /\ position.row = BOARD_SIZE - 1 THEN TRUE
    ELSE FALSE

shouldPromote(piece, position) ==
    IF piece.type = "king" THEN FALSE
    ELSE IF piece.player = "human" /\ position.row = 0 THEN TRUE
    ELSE IF piece.player = "agatha" /\ position.row = BOARD_SIZE - 1 THEN TRUE
    ELSE FALSE

\* removePieceAt mutates the board and returns the removed piece: the model
\* returns the board after the call.
removePieceAt(b, pos) ==
    IF getPieceAt(b, pos) # null THEN [b EXCEPT ![pos.row][pos.col] = null] ELSE b

\* board[to.row][to.col] = piece.  A row index outside the array reads
\* undefined and the assignment throws a TypeError; a column index >= the
\* row's length grows the row (the skipped cells are holes); a negative column
\* index sets a property that is no cell of the row.
writeCell(b, to, piece) ==
    IF to.col < 0 THEN b
    ELSE IF to.col \in DOMAIN b[to.row] THEN [b EXCEPT ![to.row][to.col] = piece]
    ELSE [b EXCEPT ![to.row] =
            [col \in 0 .. to.col |->
                IF col = to.col THEN piece
                ELSE IF col \in DOMAIN b[to.row] THEN b[to.row][col] ELSE null]]

\* movePiece without the update of the piece's stored position.
movePiece_stalePosition(b, from, to) ==
    LET piece == getPieceAt(b, from)
        b1 == [b EXCEPT ![from.row][from.col] = null]
        moved == [player |-> piece.player,
                  type |-> IF shouldPromote(piece, to) THEN "king" ELSE piece.type,
                  position |-> piece.position]
    IN  IF piece = null THEN [board |-> b, piece |-> null, threw |-> FALSE]
        ELSE IF to.row \notin DOMAIN b
             THEN [board |-> b1, piece |-> moved, threw |-> TRUE]
             ELSE [board |-> writeCell(b1, to, moved), piece |-> moved, threw |-> FALSE]

\* movePiece(board, from, to): the board after the call, the returned piece,
\* and whether the call threw.
movePiece(b, from, to) ==
    LET piece == getPieceAt(b, from)
        b1 == [b EXCEPT ![from.row][from.col] = null]
        moved == [player |-> piece.player,
                  type |-> IF shouldPromote(piece, to) THEN "king" ELSE piece.type,
                  position |-> [row |-> to.row, col |-> to.col]]
    IN  IF piece = null THEN [board |-> b, piece |-> null, threw |-> FALSE]
        ELSE IF to.row \notin DOMAIN b
             THEN [board |-> b1, piece |-> moved, threw |-> TRUE]
             ELSE [board |-> writeCell(b1, to, moved), piece |-> moved, threw |-> FALSE]

\* The squares in the order of the nested loops over row and col.
RowMajor ==
    [i \in 1 .. BOARD_SIZE * BOARD_SIZE |->
        [row |-> (i - 1) \div BOARD_SIZE, col |-> (i - 1) % BOARD_SIZE]]

\* The player's pieces in row-major order.
getPlayerPieces(b, player) ==
    LET owned(s) == b[s.row][s.col] # null /\ b[s.row][s.col].player = player
        kept == SelectSeq(RowMajor, owned)
    IN  [i \in 1 .. Len(kept) |-> b[kept[i].row][kept[i].col]]

countPieces(b, player) == Len(getPlayerPieces(b, player))

validateBoard(b) ==
    /\ DOMAIN b = Rows
    /\ \A row \in Rows :
        /\ DOMAIN b[row] = Rows
        /\ \A col \in Rows :
            /\ ~(~isPlayableSquare(row, col) /\ b[row][col] # null)
            /\ ~(b[row][col] # null /\ ~positionsEqual(b[row][col].position, Pos(row, col)))

(***************************************************************************)
(* game/rules.ts                                                           *)
(***************************************************************************)
ALL_DIRECTIONS ==
    << [rowDelta |-> -1, colDelta |-> -1],
       [rowDelta |-> -1, colDelta |-> 1],
       [rowDelta |-> 1, colDelta |-> -1],
       [rowDelta |-> 1, colDelta |-> 1] >>

\* getValidDirections without the forward filter for men.
getValidDirections_all(piece) == ALL_DIRECTIONS

getValidDirections(piece) ==
    IF piece.type = "king" THEN ALL_DIRECTIONS
    ELSE LET forward == getForwardDirection(piece.player)
             isForward(dir) == dir.rowDelta = forward
         IN  SelectSeq(ALL_DIRECTIONS, isForward)

\* getSimpleMoves stopping at the first open direction.
getSimpleMoves_firstOnly(b, piece) ==
    LET directions == getValidDirections(piece)
        target(dir) == Pos(piece.position.row + dir.rowDelta,
                           piece.position.col + dir.colDelta)
        open(dir) == isValidPosition(target(dir)) /\ getPieceAt(b, target(dir)) = null
        kept == SelectSeq(directions, open)
    IN  [i \in 1 .. Min(Len(kept), 1) |->
            [from |-> piece.position,
             to |-> target(kept[i]),
             captures |-> <<>>,
             isPromotion |-> shouldPromote(piece, target(kept[i]))]]

getSimpleMoves(b, piece) ==
    LET directions == getValidDirections(piece)
        target(dir) == Pos(piece.position.row + dir.rowDelta,
                           piece.position.col + dir.colDelta)
        open(dir) == isValidPosition(target(dir)) /\ getPieceAt(b, target(dir)) = null
        kept == SelectSeq(directions, open)
    IN  [i \in 1 .. Len(kept) |->
            [from |-> piece.position,
             to |-> target(kept[i]),
             captures |-> <<>>,
             isPromotion |-> shouldPromote(piece, target(kept[i]))]]

getSingleCaptures(b, piece) ==
    LET opponent == getOpponent(piece.player)
        actualPiece == getPieceAt(b, piece.position)
        validDirections == getValidDirections(piece)
        jumpedPos(dir) == Pos(piece.position.row + dir.rowDelta,
                              piece.position.col + dir.colDelta)
        landingPos(dir) == Pos(piece.position.row + 2 * dir.rowDelta,
                               piece.position.col + 2 * dir.colDelta)
        jumps(dir) ==
            /\ isValidPosition(jumpedPos(dir)) /\ isValidPosition(landingPos(dir))
            /\ getPieceAt(b, jumpedPos(dir)) # null
            /\ getPieceAt(b, jumpedPos(dir)).player = opponent
            /\ getPieceAt(b, landingPos(dir)) = null
        kept == SelectSeq(validDirections, jumps)
    IN  IF actualPiece = null \/ actualPiece.player # piece.player THEN <<>>
        ELSE [i \in 1 .. Len(kept) |->
                [from |-> piece.position,
                 to |-> landingPos(kept[i]),
                 captures |-> <<jumpedPos(kept[i])>>,
                 isPromotion |-> shouldPromote(piece, landingPos(kept[i]))]]

alreadyCaptured(currentCaptures, pos) ==
    \E i \in 1 .. Len(currentCaptures) : positionsEqual(currentCaptures[i], pos)

\* findMultiJumps that ends the sequence where the piece stands, without
\* looking for a further jump.
findMultiJumps_stops(b, piece, currentCaptures, startPosition) ==
    IF Len(currentCaptures) > 0
    THEN << [from |-> startPosition, to |-> piece.position,
             captures |-> currentCaptures,
             isPromotion |-> shouldPromote(piece, piece.position)] >>
    ELSE <<>>

RECURSIVE findMultiJumps(_, _, _, _)
findMultiJumps(b, piece, currentCaptures, startPosition) ==
    The({
        IF Len(singleCaptures) = 0
        THEN IF Len(currentCaptures) > 0
             THEN << [from |-> startPosition, to |-> piece.position,
                      captures |-> currentCaptures,
                      isPromotion |-> shouldPromote(piece, piece.position)] >>
             ELSE <<>>
        ELSE Flatten([i \in 1 .. Len(singleCaptures) |->
                IF alreadyCaptured(currentCaptures, singleCaptures[i].captures[1])
                THEN <<>>
                ELSE The({
                    \* sim.piece is movedPiece, sim.board with the jumped piece
                    \* removed is newBoard
                    IF sim.piece = null THEN <<>>
                    ELSE IF sim.piece.type = "king" /\ piece.type = "man"
                    THEN << [from |-> startPosition, to |-> singleCaptures[i].to,
                             captures |-> Append(currentCaptures,
                                                 singleCaptures[i].captures[1]),
                             isPromotion |-> TRUE] >>
                    ELSE The({
                        IF Len(continuations) > 0 THEN continuations
                        ELSE << [from |-> startPosition, to |-> singleCaptures[i].to,
                                 captures |-> Append(currentCaptures,
                                                     singleCaptures[i].captures[1]),
                                 isPromotion |-> singleCaptures[i].isPromotion] >>
                        : continuations \in {
                            findMultiJumps(
                                removePieceAt(sim.board, singleCaptures[i].captures[1]),
                                sim.piece,
                                Append(currentCaptures, singleCaptures[i].captures[1]),
                                startPosition) } })
                    : sim \in { movePiece(cloneBoard(b), piece.position,
                                          singleCaptures[i].to) } })])
        : singleCaptures \in { getSingleCaptures(b, piece) } })

\* getCapturesForPiece without the stop at a promotion: the crowned piece
\* goes on jumping.
getCapturesForPiece_jumpsOn(b, piece) ==
    LET singleCaptures == getSingleCaptures(b, piece)
        expand(capture) ==
            LET sim == movePiece(cloneBoard(b), piece.position, capture.to)
                newBoard == removePieceAt(sim.board, capture.captures[1])
                continuations ==
                    findMultiJumps(newBoard, sim.piece,
                                   <<capture.captures[1]>>, piece.position)
            IN  IF sim.piece = null THEN <<>>
                ELSE IF Len(continuations) > 0 THEN continuations ELSE <<capture>>
    IN  IF Len(singleCaptures) = 0 THEN <<>>
        ELSE Flatten([i \in 1 .. Len(singleCaptures) |-> expand(singleCaptures[i])])

getCapturesForPiece(b, piece) ==
    The({
        IF Len(singleCaptures) = 0 THEN <<>>
        ELSE Flatten([i \in 1 .. Len(singleCaptures) |->
                The({
                    \* sim.piece is movedPiece, sim.board with the jumped piece
                    \* removed is newBoard
                    IF sim.piece = null THEN <<>>
                    ELSE IF sim.piece.type = "king" /\ piece.type = "man"
                    THEN << [from |-> piece.position, to |-> singleCaptures[i].to,
                             captures |-> <<singleCaptures[i].captures[1]>>,
                             isPromotion |-> TRUE] >>
                    ELSE The({
                        IF Len(continuations) > 0 THEN continuations
                        ELSE <<singleCaptures[i]>>
                        : continuations \in {
                            findMultiJumps(
                                removePieceAt(sim.board, singleCaptures[i].captures[1]),
                                sim.piece,
                                <<singleCaptures[i].captures[1]>>,
                                piece.position) } })
                    : sim \in { movePiece(cloneBoard(b), piece.position,
                                          singleCaptures[i].to) } })])
        : singleCaptures \in { getSingleCaptures(b, piece) } })

getAllCapturesForPlayer(b, player) ==
    The({ Flatten([i \in 1 .. Len(pieces) |-> getCapturesForPiece(b, pieces[i])])
          : pieces \in { getPlayerPieces(b, player) } })

\* getValidMovesForPiece that looks only at the piece's own captures.
getValidMovesForPiece_ownCaptures(b, piece) ==
    IF Len(getCapturesForPiece(b, piece)) > 0 THEN getCapturesForPiece(b, piece)
    ELSE getSimpleMoves(b, piece)

getValidMovesForPiece(b, piece) ==
    LET allCaptures == getAllCapturesForPlayer(b, piece.player)
    IN  IF Len(allCaptures) > 0 THEN getCapturesForPiece(b, piece)
        ELSE getSimpleMoves(b, piece)

getAllValidMoves(b, player) ==
    The({
        IF Len(captures) > 0 THEN captures
        ELSE LET pieces == getPlayerPieces(b, player)
             IN  Flatten([i \in 1 .. Len(pieces) |-> getSimpleMoves(b, pieces[i])])
        : captures \in { getAllCapturesForPlayer(b, player) } })

isGeometricallyValid(move) ==
    LET rowDiff == Abs(move.to.row - move.from.row)
        colDiff == Abs(move.to.col - move.from.col)
        maxDist == 2 * Len(move.captures)
    IN  IF Len(move.captures) = 0 THEN rowDiff = 1 /\ colDiff = 1
        ELSE rowDiff <= maxDist /\ colDiff <= maxDist
                /\ rowDiff % 2 = 0 /\ colDiff % 2 = 0

\* The removal loop leaving after the first captured piece.
removeAll_first(b, captures) ==
    IF Len(captures) = 0 THEN b ELSE removePieceAt(b, Head(captures))

RECURSIVE removeAll(_, _)
\* for (const capturePos of move.captures) removePieceAt(board, capturePos)
removeAll(b, captures) ==
    IF Len(captures) = 0 THEN b
    ELSE removeAll(removePieceAt(b, Head(captures)), Tail(captures))

\* executeMove(board, move): the board after the call and how the call ended:
\* "true", "false" or "throw" (an uncaught TypeError out of movePiece).
executeMove(b, move) ==
    LET piece == getPieceAt(b, move.from)
        moved == movePiece(removeAll(b, move.captures), move.from, move.to)
    IN  IF piece = null THEN [board |-> b, ret |-> "false"]
        ELSE IF ~isGeometricallyValid(move) THEN [board |-> b, ret |-> "false"]
        ELSE [board |-> moved.board, ret |-> IF moved.threw THEN "throw" ELSE "true"]

hasValidMoves(b, player) == Len(getAllValidMoves(b, player)) > 0

simulateMove(b, move) == executeMove(cloneBoard(b), move).board

(***************************************************************************)
(* ai/evaluation.ts                                                        *)
(***************************************************************************)
DEFAULT_WEIGHTS ==
    [pieceValue |-> 100, kingValue |-> 150, centerControl |-> 10,
     advancement |-> 5, backRowDefense |-> 3, mobilityBonus |-> 2]

\* isPieceProtected looking at the row above the piece for both players.
isPieceProtected_rowAbove(piece, allPieces) ==
    \E pos \in { Pos(piece.position.row - 1, piece.position.col - 1),
                  Pos(piece.position.row - 1, piece.position.col + 1) } :
        /\ pos.row >= 0 /\ pos.row < BOARD_SIZE
        /\ pos.col >= 0 /\ pos.col < BOARD_SIZE
        /\ \E i \in 1 .. Len(allPieces) :
            /\ allPieces[i].position.row = pos.row
            /\ allPieces[i].position.col = pos.col

isPieceProtected(piece, allPieces) ==
    LET row == piece.position.row
        col == piece.position.col
        backRow == IF piece.player = "agatha" THEN row - 1 ELSE row + 1
        backPositions == { Pos(backRow, col - 1), Pos(backRow, col + 1) }
    IN  \E pos \in backPositions :
            /\ pos.row >= 0 /\ pos.row < BOARD_SIZE
            /\ pos.col >= 0 /\ pos.col < BOARD_SIZE
            /\ \E i \in 1 .. Len(allPieces) :
                /\ allPieces[i].position.row = pos.row
                /\ allPieces[i].position.col = pos.col

\* weights.centerControl / 2 is exact for an even weight (10 by default).
evaluatePiecePosition(piece, player, weights, allPieces) ==
    LET row == piece.position.row
        col == piece.position.col
        center ==
            IF col >= 2 /\ col <= 5
            THEN weights.centerControl
                    + (IF col >= 3 /\ col <= 4 THEN weights.centerControl \div 2 ELSE 0)
            ELSE 0
        advance ==
            IF piece.type = "man"
            THEN IF player = "agatha" THEN row * weights.advancement
                 ELSE (BOARD_SIZE - 1 - row) * weights.advancement
            ELSE 0
        backRank ==
            IF piece.type = "man"
            THEN IF player = "agatha" /\ row = 0 THEN weights.backRowDefense
                 ELSE IF player = "human" /\ row = BOARD_SIZE - 1
                      THEN weights.backRowDefense
                      ELSE 0
            ELSE 0
        edge ==
            IF piece.type = "king"
            THEN (IF col = 0 \/ col = BOARD_SIZE - 1
                  THEN weights.centerControl \div 2 ELSE 0)
                 + (IF row = 0 \/ row = BOARD_SIZE - 1
                    THEN weights.centerControl \div 2 ELSE 0)
            ELSE 0
        protected ==
            IF isPieceProtected(piece, allPieces) THEN weights.backRowDefense ELSE 0
    IN  center + advance + backRank - edge + protected

RECURSIVE sumPieces(_, _, _, _)
\* The loop over the player's pieces, from piece i on.
sumPieces(pieces, i, player, weights) ==
    IF i > Len(pieces) THEN 0
    ELSE (IF pieces[i].type = "king" THEN weights.kingValue ELSE weights.pieceValue)
            + evaluatePiecePosition(pieces[i], player, weights, pieces)
            + sumPieces(pieces, i + 1, player, weights)

evaluatePlayerPosition(b, player, weights) ==
    sumPieces(getPlayerPieces(b, player), 1, player, weights)
        + Len(getAllValidMoves(b, player)) * weights.mobilityBonus

\* evaluateBoard with Agatha's kings counted for nothing.
evaluateBoard_kingsForNothing(b, weights) ==
    evaluatePlayerPosition(b, "agatha", [weights EXCEPT !.kingValue = 0])
        - evaluatePlayerPosition(b, "human", weights)

evaluateBoard(b, weights) ==
    evaluatePlayerPosition(b, "agatha", weights)
        - evaluatePlayerPosition(b, "human", weights)

WIN_SCORE == 100000

\* evaluateEndGame returns a number or null: isNull tells which.
\* evaluateEndGame asking for Agatha's moves before the human's.
evaluateEndGame_agathaFirst(b, player) ==
    LET forAgatha == [isNull |-> FALSE,
                      score |-> IF player = "agatha" THEN WIN_SCORE ELSE -WIN_SCORE]
        forHuman == [isNull |-> FALSE,
                     score |-> IF player = "human" THEN WIN_SCORE ELSE -WIN_SCORE]
    IN  IF countPieces(b, "human") = 0 THEN forAgatha
        ELSE IF countPieces(b, "agatha") = 0 THEN forHuman
        ELSE IF Len(getAllValidMoves(b, "agatha")) = 0 THEN forHuman
        ELSE IF Len(getAllValidMoves(b, "human")) = 0 THEN forAgatha
        ELSE [isNull |-> TRUE, score |-> 0]

evaluateEndGame(b, player) ==
    LET forAgatha == [isNull |-> FALSE,
                      score |-> IF player = "agatha" THEN WIN_SCORE ELSE -WIN_SCORE]
        forHuman == [isNull |-> FALSE,
                     score |-> IF player = "human" THEN WIN_SCORE ELSE -WIN_SCORE]
    IN  IF countPieces(b, "human") = 0 THEN forAgatha
        ELSE IF countPieces(b, "agatha") = 0 THEN forHuman
        ELSE IF Len(getAllValidMoves(b, "human")) = 0 THEN forAgatha
        ELSE IF Len(getAllValidMoves(b, "agatha")) = 0 THEN forHuman
        ELSE [isNull |-> TRUE, score |-> 0]

(***************************************************************************)
(* ai/minimax.ts                                                           *)
(***************************************************************************)
\* JavaScript's Infinity: above every score the search can return.
Infinity == 100000000

\* The move type's null.
noMove == [from |-> Pos(-1, -1), to |-> Pos(-1, -1), captures |-> <<>>,
           isPromotion |-> FALSE]

\* The comparator of orderMoves: negative when a sorts before b.  The
\* distances |3.5 - col| are doubled, which keeps the sign of the difference.
compareMoves(a, b) ==
    LET captureScore == Len(b.captures) * 100 - Len(a.captures) * 100
    IN  IF captureScore # 0 THEN captureScore
        ELSE IF b.isPromotion /\ ~a.isPromotion THEN 1
        ELSE IF a.isPromotion /\ ~b.isPromotion THEN -1
        ELSE Abs(7 - 2 * a.to.col) - Abs(7 - 2 * b.to.col)

RECURSIVE insertMove(_, _)
\* x put behind the last element of the sorted list that does not sort
\* after it: Array.prototype.sort is stable.
insertMove(sorted, x) ==
    IF Len(sorted) = 0 THEN <<x>>
    ELSE IF compareMoves(sorted[Len(sorted)], x) <= 0 THEN Append(sorted, x)
    ELSE Append(insertMove(SubSeq(sorted, 1, Len(sorted) - 1), x), sorted[Len(sorted)])

RECURSIVE sortMoves(_, _)
sortMoves(moves, n) ==
    IF n = 0 THEN <<>> ELSE insertMove(sortMoves(moves, n - 1), moves[n])

orderMoves(moves) == sortMoves(moves, Len(moves))

\* The cutoff test with its operands exchanged.
cutoff_exchanged(alpha, beta) == alpha <= beta

\* if (beta <= alpha) break
cutoff(alpha, beta) == beta <= alpha

RECURSIVE minimax(_, _, _, _, _)
RECURSIVE searchMoves(_, _, _, _, _, _, _, _, _)
\* The loop of minimax over orderedMoves from move i on; best is maxScore or
\* minScore so far and nodes the number of minimax calls made so far.
searchMoves(b, depth, orderedMoves, i, alpha, beta, isMaximizing, best, nodes) ==
    IF i > Len(orderedMoves) THEN [score |-> best, nodes |-> nodes]
    ELSE The({
        LET newBest == IF isMaximizing THEN Max(best, child.score)
                       ELSE Min(best, child.score)
            newAlpha == IF isMaximizing THEN Max(alpha, child.score) ELSE alpha
            newBeta == IF isMaximizing THEN beta ELSE Min(beta, child.score)
        IN  IF cutoff(newAlpha, newBeta)
            THEN [score |-> newBest, nodes |-> nodes + child.nodes]
            ELSE searchMoves(b, depth, orderedMoves, i + 1, newAlpha, newBeta,
                             isMaximizing, newBest, nodes + child.nodes)
        : child \in { minimax(executeMove(cloneBoard(b), orderedMoves[i]).board,
                              depth - 1, alpha, beta, ~isMaximizing) } })

\* minimax returns the score; nodes counts the nodesEvaluated++ of the call
\* and of the calls below it.
minimax(b, depth, alpha, beta, isMaximizing) ==
    The({
        IF ~endGameScore.isNull
        THEN [score |-> IF isMaximizing THEN endGameScore.score + depth
                        ELSE -endGameScore.score - depth,
              nodes |-> 1]
        ELSE IF depth = 0 THEN [score |-> evaluateBoard(b, DEFAULT_WEIGHTS), nodes |-> 1]
        ELSE The({
            IF Len(moves) = 0
            THEN [score |-> IF isMaximizing THEN -WIN_SCORE + depth
                            ELSE WIN_SCORE - depth,
                  nodes |-> 1]
            ELSE searchMoves(b, depth, orderMoves(moves), 1, alpha, beta, isMaximizing,
                             IF isMaximizing THEN -Infinity ELSE Infinity, 1)
            : moves \in { getAllValidMoves(b, IF isMaximizing THEN "agatha" ELSE "human") } })
        : endGameScore \in { evaluateEndGame(b, IF isMaximizing THEN "agatha" ELSE "human") } })

RECURSIVE searchRoot(_, _, _, _, _, _, _, _)
\* The loop of getBestMove over orderedMoves from move i on.
searchRoot(b, depth, orderedMoves, i, alpha, bestScore, bestMove, nodes) ==
    IF i > Len(orderedMoves) THEN [move |-> bestMove, nodes |-> nodes]
    ELSE The({
        searchRoot(b, depth, orderedMoves, i + 1, Max(alpha, child.score),
                   IF child.score > bestScore THEN child.score ELSE bestScore,
                   IF child.score > bestScore THEN orderedMoves[i] ELSE bestMove,
                   nodes + child.nodes)
        : child \in { minimax(executeMove(cloneBoard(b), orderedMoves[i]).board,
                              depth - 1, alpha, Infinity, FALSE) } })

\* getBestMove with the single legal move refused as if there were none.
getBestMoveWithDepth_noSingle(b, depth) ==
    The({
        IF Len(moves) <= 1 THEN [move |-> noMove, nodes |-> 0]
        ELSE searchRoot(b, depth, orderMoves(moves), 1, -Infinity, -Infinity, noMove, 0)
        : moves \in { getAllValidMoves(b, "agatha") } })

\* getBestMoveWithDepth(board, depth): the move returned (noMove for null) and
\* the number of minimax calls it made.
getBestMoveWithDepth(b, depth) ==
    The({
        IF Len(moves) = 0 THEN [move |-> noMove, nodes |-> 0]
        ELSE IF Len(moves) = 1 THEN [move |-> moves[1], nodes |-> 0]
        ELSE searchRoot(b, depth, orderMoves(moves), 1, -Infinity, -Infinity, noMove, 0)
        : moves \in { getAllValidMoves(b, "agatha") } })

\* getBestMove(board, depth) sets nodesEvaluated to 0 and then runs the code
\* of getBestMoveWithDepth.
getBestMove(b, depth) == getBestMoveWithDepth(b, depth)

\* evaluateMove(board, move, depth): the score returned and the number of
\* minimax calls made.
evaluateMove(b, move, depth) ==
    The({ [score |-> -found.score, nodes |-> found.nodes]
          : found \in { minimax(executeMove(cloneBoard(b), move).board, depth,
                                -Infinity, Infinity, TRUE) } })

TOP_MOVES_DEPTH == 4

\* moves.map(move => ({move, score})) of getTopMoves, with the minimax calls
\* made for each entry: minimax(newBoard, 4, ..., false) for Agatha,
\* -minimax(newBoard, 4, ..., true) for the human.
scoreMoves(b, player, moves) ==
    [i \in 1 .. Len(moves) |->
        The({ [move |-> moves[i],
               score |-> IF player = "agatha" THEN found.score ELSE -found.score,
               nodes |-> found.nodes]
              : found \in { minimax(executeMove(cloneBoard(b), moves[i]).board,
                                    TOP_MOVES_DEPTH, -Infinity, Infinity,
                                    player # "agatha") } })]

RECURSIVE insertScored(_, _)
\* scoredMoves.sort((a, b) => b.score - a.score), stable.
insertScored(sorted, x) ==
    IF Len(sorted) = 0 THEN <<x>>
    ELSE IF x.score - sorted[Len(sorted)].score <= 0 THEN Append(sorted, x)
    ELSE Append(insertScored(SubSeq(sorted, 1, Len(sorted) - 1), x),
                sorted[Len(sorted)])

\* The list left in the order of the generator.
sortScored_unsorted(scored, n) == scored

RECURSIVE sortScored(_, _)
sortScored(scored, n) ==
    IF n = 0 THEN <<>> ELSE insertScored(sortScored(scored, n - 1), scored[n])

\* Array.prototype.slice(0, end): a negative end counts from the end.
sliceTo(items, end) ==
    SubSeq(items, 1, IF end < 0 THEN Max(Len(items) + end, 0) ELSE Min(end, Len(items)))

RECURSIVE sumNodes(_, _)
sumNodes(scored, n) == IF n = 0 THEN 0 ELSE scored[n].nodes + sumNodes(scored, n - 1)

\* getTopMoves(board, player, count): the list returned, of {move, score},
\* and the number of minimax calls made.
getTopMoves(b, player, count) ==
    The({ [top |-> sliceTo([i \in 1 .. Len(sorted) |->
                                [move |-> sorted[i].move, score |-> sorted[i].score]],
                           count),
           nodes |-> sumNodes(sorted, Len(sorted))]
          : sorted \in { sortScored(scoreMoves(b, player, getAllValidMoves(b, player)),
                                    Len(getAllValidMoves(b, player))) } })

PREDICTED_RESPONSE_DEPTH == 4

getPredictedResponse(b, humanMove) ==
    getBestMoveWithDepth(executeMove(cloneBoard(b), humanMove).board,
                         PREDICTED_RESPONSE_DEPTH)

RECURSIVE deepen(_, _, _, _, _, _, _, _, _)

\* The loop of iterativeDeepeningSearch keeping the first move found.
deepen_keepsFirst(b, depth, maxDepth, maxTimeMs, elapsed, k, bestMove, nodes, started) ==
    IF depth > maxDepth \/ elapsed[k] >= maxTimeMs
    THEN [move |-> bestMove, nodes |-> nodes, started |-> started]
    ELSE The({ deepen(b, depth + 2, maxDepth, maxTimeMs, elapsed, k + 1,
                      IF bestMove # noMove THEN bestMove ELSE found.move,
                      nodes + found.nodes, Append(started, depth))
               : found \in { getBestMoveWithDepth(b, depth) } })

\* The loop of iterativeDeepeningSearch from the given depth on.  elapsed[k]
\* is Date.now() - startTime as read at the k-th pass; started lists the
\* depths searched.
deepen(b, depth, maxDepth, maxTimeMs, elapsed, k, bestMove, nodes, started) ==
    IF depth > maxDepth \/ elapsed[k] >= maxTimeMs
    THEN [move |-> bestMove, nodes |-> nodes, started |-> started]
    ELSE The({ deepen(b, depth + 2, maxDepth, maxTimeMs, elapsed, k + 1,
                      IF found.move # noMove THEN found.move ELSE bestMove,
                      nodes + found.nodes, Append(started, depth))
               : found \in { getBestMoveWithDepth(b, depth) } })

iterativeDeepeningSearch(b, maxDepth, maxTimeMs, elapsed) ==
    deepen(b, 2, maxDepth, maxTimeMs, elapsed, 1, noMove, 0, <<>>)

(***************************************************************************)
(* game/game-controller.ts: the controller's state apart from its board,   *)
(* which is the variable board.                                            *)
(***************************************************************************)
INITIAL_PIECE_COUNT == 12

createInitialState ==
    [currentPlayer |-> "human",
     status |-> "playing",
     selectedPiece |-> null,
     validMoves |-> <<>>,
     moveHistory |-> <<>>,
     humanPieceCount |-> INITIAL_PIECE_COUNT,
     agathaPieceCount |-> INITIAL_PIECE_COUNT]

\* The from and to of the two moves are the same squares.
sameSquares(m, move) ==
    positionsEqual(m.from, move.from) /\ positionsEqual(m.to, move.to)

\* _checkGameOver on the state of the player who has just moved: the state
\* with its status set.
checkGameOver(b, st) ==
    IF st.humanPieceCount = 0 THEN [st EXCEPT !.status = "agatha_wins"]
    ELSE IF st.agathaPieceCount = 0 THEN [st EXCEPT !.status = "human_wins"]
    ELSE IF ~hasValidMoves(b, getOpponent(st.currentPlayer))
         THEN [st EXCEPT !.status =
                    IF getOpponent(st.currentPlayer) = "human"
                    THEN "agatha_wins" ELSE "human_wins"]
         ELSE st

\* The record with the player the turn passes to.
moveRecord_nextPlayer(st, move) ==
    [moveNumber |-> (Len(st.moveHistory) \div 2) + 1,
     player |-> getOpponent(st.currentPlayer),
     from |-> move.from,
     to |-> move.to,
     captured |-> Len(move.captures) > 0,
     promoted |-> move.isPromotion]

\* The record makeMove appends to moveHistory.
moveRecord(st, move) ==
    [moveNumber |-> (Len(st.moveHistory) \div 2) + 1,
     player |-> st.currentPlayer,
     from |-> move.from,
     to |-> move.to,
     captured |-> Len(move.captures) > 0,
     promoted |-> move.isPromotion]

\* makeMove from "Execute the move" on: the move has passed the checks.
applyMove(b, st, move) ==
    The({ IF done.ret = "throw"
          THEN [board |-> done.board, state |-> st, ret |-> "throw"]
          ELSE The({ [board |-> done.board,
                      state |-> IF checked.status # "playing" THEN checked
                                ELSE [checked EXCEPT
                                        !.currentPlayer = getOpponent(st.currentPlayer)],
                      ret |-> "true"]
                     : checked \in { checkGameOver(done.board,
                            [st EXCEPT
                                !.moveHistory = Append(st.moveHistory, moveRecord(st, move)),
                                !.humanPieceCount = countPieces(done.board, "human"),
                                !.agathaPieceCount = countPieces(done.board, "agatha"),
                                !.selectedPiece = null,
                                !.validMoves = <<>>]) } })
          : done \in { executeMove(b, move) } })

\* makeMove without the test of isGameOver.
makeMove_afterGameOver(b, st, move) ==
    IF getPieceAt(b, move.from) = null
            \/ getPieceAt(b, move.from).player # st.currentPlayer
    THEN [board |-> b, state |-> st, ret |-> "false"]
    ELSE The({ IF \E i \in 1 .. Len(allMoves) : sameSquares(allMoves[i], move)
               THEN applyMove(b, st, move)
               ELSE [board |-> b, state |-> st, ret |-> "false"]
               : allMoves \in { getValidMovesForPiece(b, getPieceAt(b, move.from)) } })

\* GameController.makeMove(move): the board and the state after the call,
\* and what the call returned.
makeMove(b, st, move) ==
    IF st.status # "playing" THEN [board |-> b, state |-> st, ret |-> "false"]
    ELSE IF getPieceAt(b, move.from) = null
            \/ getPieceAt(b, move.from).player # st.currentPlayer
    THEN [board |-> b, state |-> st, ret |-> "false"]
    ELSE IF \E i \in 1 .. Len(st.validMoves) : sameSquares(st.validMoves[i], move)
    THEN applyMove(b, st, move)
    ELSE The({ IF \E i \in 1 .. Len(allMoves) : sameSquares(allMoves[i], move)
               THEN applyMove(b, st, move)
               ELSE [board |-> b, state |-> st, ret |-> "false"]
               : allMoves \in { getValidMovesForPiece(b, getPieceAt(b, move.from)) } })

clearSelection(st) == [st EXCEPT !.selectedPiece = null, !.validMoves = <<>>]

\* this._state.validMoves.find(m => positionsEqual(m.to, position)), or
\* noMove.
findTarget(validMoves, position) ==
    IF \E i \in 1 .. Len(validMoves) : positionsEqual(validMoves[i].to, position)
    THEN validMoves[CHOOSE i \in 1 .. Len(validMoves) :
                        /\ positionsEqual(validMoves[i].to, position)
                        /\ \A k \in 1 .. i - 1 :
                                ~positionsEqual(validMoves[k].to, position)]
    ELSE noMove

\* GameController.selectPiece(position): the board and the state after the
\* call, what the call returned, and the move it passed to makeMove, if any.
selectPiece(b, st, position) ==
    IF st.status # "playing"
    THEN [board |-> b, state |-> st, ret |-> "false", made |-> noMove]
    ELSE IF getPieceAt(b, position) = null
            \/ getPieceAt(b, position).player # st.currentPlayer
    THEN IF st.selectedPiece # null /\ findTarget(st.validMoves, position) # noMove
         THEN The({ [board |-> after.board, state |-> after.state, ret |-> after.ret,
                     made |-> findTarget(st.validMoves, position)]
                    : after \in { makeMove(b, st, findTarget(st.validMoves, position)) } })
         ELSE [board |-> b, state |-> clearSelection(st), ret |-> "false",
               made |-> noMove]
    ELSE The({ IF Len(validMoves) = 0
               THEN [board |-> b, state |-> clearSelection(st), ret |-> "false",
                     made |-> noMove]
               ELSE [board |-> b,
                     state |-> [st EXCEPT !.selectedPiece = getPieceAt(b, position),
                                          !.validMoves = validMoves],
                     ret |-> "true", made |-> noMove]
               : validMoves \in { getValidMovesForPiece(b, getPieceAt(b, position)) } })

(***************************************************************************)
(* Boards as JavaScript objects.  A board is an array of row arrays whose   *)
(* cells refer to piece objects: heap.rows and heap.pieces hold the row     *)
(* arrays and the piece objects by identity, a board is the identities of   *)
(* its rows, a cell holds a piece's identity or 0 for null.                 *)
(***************************************************************************)
NoHeap == [rows |-> <<>>, pieces |-> <<>>]

\* The board a reference shows: each cell with the fields of its piece.
view(h, ref) ==
    [r \in Rows |-> [c \in Rows |->
        IF h.rows[ref[r]][c] = 0 THEN null ELSE h.pieces[h.rows[ref[r]][c]]]]

occupiedCells(b) ==
    LET full(s) == b[s.row][s.col] # null IN SelectSeq(RowMajor, full)

\* The objects created for the cells of b, row by row: rows and pieces are
\* appended to the heap, ref is the new board.
allocate(h, b, sharedCells) ==
    LET occ == occupiedCells(b)
        idOf(r, c) == Len(h.pieces) + (CHOOSE i \in 1 .. Len(occ) : occ[i] = Pos(r, c))
        newRows == [k \in 1 .. BOARD_SIZE |-> [c \in Rows |->
                        IF b[k - 1][c] = null THEN 0
                        ELSE IF sharedCells = <<>> THEN idOf(k - 1, c)
                        ELSE sharedCells[k - 1][c]]]
        newPieces == IF sharedCells = <<>>
                     THEN [i \in 1 .. Len(occ) |-> b[occ[i].row][occ[i].col]]
                     ELSE <<>>
    IN  [heap |-> [rows |-> h.rows \o newRows, pieces |-> h.pieces \o newPieces],
         ref |-> [r \in Rows |-> Len(h.rows) + r + 1]]

\* cloneBoard copying the rows but not the pieces: row.map(cell => cell).
cloneBoardObjects_shallow(h, ref) ==
    allocate(h, view(h, ref), [r \in Rows |-> h.rows[ref[r]]])

\* cloneBoard on objects: board.map(row => row.map(cell => cell ? {player,
\* type, position: {row, col}} : null)): new rows and a new piece per cell.
cloneBoardObjects(h, ref) == allocate(h, view(h, ref), <<>>)

getPieceAtObjects(h, ref, pos) ==
    IF ~isValidPosition(pos) THEN 0 ELSE h.rows[ref[pos.row]][pos.col]

removePieceAtObjects(h, ref, pos) ==
    IF getPieceAtObjects(h, ref, pos) # 0
    THEN [h EXCEPT !.rows[ref[pos.row]][pos.col] = 0]
    ELSE h

\* movePiece on objects, for a destination on the grid: the cell at from is
\* cleared, the piece object gets its new position and rank, the cell at to
\* refers to it.
movePieceObjects(h, ref, from, to) ==
    LET id == getPieceAtObjects(h, ref, from)
        piece == h.pieces[id]
    IN  IF id = 0 THEN h
        ELSE [h EXCEPT
                !.rows[ref[from.row]][from.col] = 0,
                !.pieces[id] =
                    [player |-> piece.player,
                     type |-> IF shouldPromote(piece, to) THEN "king" ELSE piece.type,
                     position |-> [row |-> to.row, col |-> to.col]],
                !.rows[ref[to.row]][to.col] = id]

RECURSIVE removeAllObjects(_, _, _)
removeAllObjects(h, ref, captures) ==
    IF Len(captures) = 0 THEN h
    ELSE removeAllObjects(removePieceAtObjects(h, ref, Head(captures)), ref,
                          Tail(captures))

\* executeMove on objects, for a destination on the grid.
executeMoveObjects(h, ref, move) ==
    IF getPieceAtObjects(h, ref, move.from) = 0 THEN h
    ELSE IF ~isGeometricallyValid(move) THEN h
    ELSE movePieceObjects(removeAllObjects(h, ref, move.captures), ref,
                          move.from, move.to)

\* simulateMove on objects: the heap after the call and the returned board.
simulateMoveObjects(h, ref, move) ==
    LET copy == cloneBoardObjects(h, ref)
    IN  [heap |-> executeMoveObjects(copy.heap, copy.ref, move), ref |-> copy.ref]

(***************************************************************************)
(* Input boards: built as the tests build them, createEmptyBoard() followed *)
(* by placePiece() calls.  One piece of any kind (the mover) on a square of *)
(* a set of mover squares, facing at most maxOthers opposing men on squares *)
(* of OtherSquares.                                                        *)
(***************************************************************************)
MaxOthers == 4

\* The two corners of the long diagonal and eight interior squares.
MoverSquares ==
    { Pos(7, 0), Pos(0, 7), Pos(2, 3), Pos(5, 4), Pos(4, 5),
      Pos(3, 2), Pos(4, 3), Pos(3, 4), Pos(2, 5), Pos(5, 2) }

\* Ten interior dark squares, closed under the half-turn of the board: the
\* long diagonal, two squares next to each back rank, and the squares that
\* close a ring of four around (2,5) and around (5,2).
OtherSquares ==
    { Pos(6, 1), Pos(5, 2), Pos(4, 3), Pos(3, 4), Pos(2, 5), Pos(1, 6),
      Pos(1, 4), Pos(6, 3), Pos(3, 6), Pos(4, 1) }

RECURSIVE placeMen(_, _, _)
placeMen(b, squares, player) ==
    IF squares = {} THEN b
    ELSE LET s == CHOOSE x \in squares : TRUE
         IN  placeMen(placePiece(b, s.row, s.col, player, "man"),
                      squares \ {s}, player)

\* A man never stands on the rank where it would have been crowned.
manOnCrownRank(player, type, pos) ==
    type = "man" /\ shouldPromote(Piece(player, type, pos.row, pos.col), pos)

BoardsWith(moverSquares, maxOthers) ==
    LET otherSets == { o \in SUBSET OtherSquares : Cardinality(o) <= maxOthers }
        movers == { x \in moverSquares \X Players \X PieceTypes :
                        ~manOnCrownRank(x[2], x[3], x[1]) }
    IN  { placeMen(placePiece(createEmptyBoard, x[1][1].row, x[1][1].col,
                              x[1][2], x[1][3]),
                   x[2], getOpponent(x[1][2])) :
            x \in { y \in movers \X otherSets : y[1][1] \notin y[2] } }

Squares == { Pos(r, c) : r \in Rows, c \in Rows }

Occupied(b) == { s \in Squares : b[s.row][s.col] # null }

NoCall == [op |-> "none"]

(***************************************************************************)
(* The move rules engine: one call on an input board                       *)
(***************************************************************************)
InitRules ==
    /\ board \in BoardsWith(MoverSquares, MaxOthers)
    /\ call = NoCall
    /\ turn = "human"
    /\ plies = 0
    /\ nodesEvaluated = 0
    /\ state = createInitialState
    /\ heap = NoHeap

CallGetAllValidMoves ==
    /\ call.op = "none"
    /\ \E player \in Players :
        call' = [op |-> "getAllValidMoves", player |-> player,
                 moves |-> getAllValidMoves(board, player)]
    /\ UNCHANGED <<board, turn, plies>>
    /\ UNCHANGED <<nodesEvaluated, state, heap>>

CallGetValidMovesForPiece ==
    /\ call.op = "none"
    /\ \E s \in Occupied(board) :
        call' = [op |-> "getValidMovesForPiece", piece |-> board[s.row][s.col],
                 moves |-> getValidMovesForPiece(board, board[s.row][s.col])]
    /\ UNCHANGED <<board, turn, plies>>
    /\ UNCHANGED <<nodesEvaluated, state, heap>>

CallExecuteLegalMove ==
    /\ call.op = "none"
    /\ \E player \in Players :
        \E moves \in {getAllValidMoves(board, player)} :
            \E i \in 1 .. Len(moves) :
                \E done \in {executeMove(board, moves[i])} :
                    /\ board' = done.board
                    /\ call' = [op |-> "executeMove", player |-> player,
                                pre |-> board, move |-> moves[i], ret |-> done.ret,
                                legal |-> TRUE]
    /\ UNCHANGED <<turn, plies>>
    /\ UNCHANGED <<nodesEvaluated, state, heap>>

NextRules ==
    \/ CallGetAllValidMoves
    \/ CallGetValidMovesForPiece
    \/ CallExecuteLegalMove

SpecRules == InitRules /\ [][NextRules]_vars

(***************************************************************************)
(* executeMove on any Move value                                           *)
(***************************************************************************)
MaxExecOthers == 1

MaxDelta == 2

MaxCaptures == 2

ExecMoverSquares == { Pos(7, 0), Pos(0, 7), Pos(4, 3) }

\* The squares a requested move may start from: the occupied ones, an empty
\* one, and two outside the grid.
FromChoices(b) == Occupied(b) \cup { Pos(3, 3), Pos(8, 1), Pos(2, -1) }

\* The squares a requested move may list as captured.
CaptureChoices(b) == Occupied(b) \cup { Pos(-1, -1) }

RECURSIVE SeqsUpTo(_, _)
SeqsUpTo(S, n) ==
    IF n = 0 THEN { <<>> }
    ELSE LET shorter == SeqsUpTo(S, n - 1)
         IN  shorter \cup { Append(q, x) : q \in shorter, x \in S }

AnyMoves(b) ==
    { [from |-> f, to |-> Pos(f.row + dr, f.col + dc), captures |-> caps,
       isPromotion |-> FALSE] :
        f \in FromChoices(b), dr \in -MaxDelta .. MaxDelta,
        dc \in -MaxDelta .. MaxDelta,
        caps \in SeqsUpTo(CaptureChoices(b), MaxCaptures) }

InitExecute ==
    /\ board \in BoardsWith(ExecMoverSquares, MaxExecOthers)
    /\ call = NoCall
    /\ turn = "human"
    /\ plies = 0
    /\ nodesEvaluated = 0
    /\ state = createInitialState
    /\ heap = NoHeap

CallExecuteMove ==
    /\ call.op = "none"
    /\ \E move \in AnyMoves(board) :
        \E done \in {executeMove(board, move)} :
            /\ board' = done.board
            /\ call' = [op |-> "executeMove", player |-> "none", pre |-> board,
                        move |-> move, ret |-> done.ret, legal |-> FALSE]
    /\ UNCHANGED <<turn, plies>>
    /\ UNCHANGED <<nodesEvaluated, state, heap>>

NextExecute == CallExecuteMove

SpecExecute == InitExecute /\ [][NextExecute]_vars

(***************************************************************************)
(* The rules of the game stated on their own, for the claims to compare    *)
(* the engine's results with                                               *)
(***************************************************************************)
Diagonals == { <<dr, dc>> : dr \in {-1, 1}, dc \in {-1, 1} }

OnBoard(r, c) == r \in Rows /\ c \in Rows

\* The row directions a piece may step or jump in.
Allowed(piece, dr) ==
    piece.type = "king" \/ dr = (IF piece.player = "human" THEN -1 ELSE 1)

\* The piece standing on (r, c) of b can jump in direction d.
JumpOpen(b, piece, r, c, d) ==
    /\ Allowed(piece, d[1])
    /\ OnBoard(r + 2 * d[1], c + 2 * d[2])
    /\ b[r + d[1]][c + d[2]] # null
    /\ b[r + d[1]][c + d[2]].player \notin {piece.player, "none"}
    /\ b[r + 2 * d[1]][c + 2 * d[2]] = null

CanJump(b, r, c) ==
    /\ b[r][c] # null
    /\ \E d \in Diagonals : JumpOpen(b, b[r][c], r, c, d)

SideCanJump(b, player) ==
    \E s \in Squares : b[s.row][s.col].player = player /\ CanJump(b, s.row, s.col)

CanStep(b, r, c) ==
    /\ b[r][c] # null
    /\ \E d \in Diagonals :
        /\ Allowed(b[r][c], d[1])
        /\ OnBoard(r + d[1], c + d[2])
        /\ b[r + d[1]][c + d[2]] = null

CrownRank(player) == IF player = "human" THEN 0 ELSE 7

IsCapture(m) == Len(m.captures) > 0

Moves(c) == { c.moves[i] : i \in 1 .. Len(c.moves) }

Generated == call.op \in {"getAllValidMoves", "getValidMovesForPiece"}

\* The side a generating call was made for.
Side(c) == IF c.op = "getValidMovesForPiece" THEN c.piece.player ELSE c.player

\* C1. Mandatory capture: when some piece of the side has a capture,
\* getAllValidMoves returns captures only and getValidMovesForPiece returns
\* nothing for a piece without a capture of its own; a simple move is
\* returned only when no piece of the side has a capture.
C1_MandatoryCapture ==
    /\ (call.op = "getAllValidMoves" /\ SideCanJump(board, call.player))
            => \A m \in Moves(call) : IsCapture(m)
    /\ (/\ call.op = "getValidMovesForPiece"
        /\ SideCanJump(board, call.piece.player)
        /\ ~CanJump(board, call.piece.position.row, call.piece.position.col))
            => call.moves = <<>>
    /\ (Generated /\ \E m \in Moves(call) : ~IsCapture(m))
            => ~SideCanJump(board, Side(call))

\* A piece that could step is given no move because another piece of its
\* side must capture.
C1_Witness ==
    /\ call.op = "getValidMovesForPiece"
    /\ SideCanJump(board, call.piece.player)
    /\ ~CanJump(board, call.piece.position.row, call.piece.position.col)
    /\ CanStep(board, call.piece.position.row, call.piece.position.col)
    /\ call.moves = <<>>

\* The square the mover stands on after the first j hops of move m.
RECURSIVE Landing(_, _)
Landing(m, j) ==
    IF j = 0 THEN m.from
    ELSE LET before == Landing(m, j - 1)
         IN  Pos(2 * m.captures[j].row - before.row,
                 2 * m.captures[j].col - before.col)

\* C2. Promotion stops the chain: in every generated move of a man, a hop
\* that lands on the crowning rank is the move's last hop, the move ends
\* on that square and has isPromotion = TRUE.
C2_PromotionStopsChain ==
    Generated =>
        \A m \in Moves(call) :
            board[m.from.row][m.from.col].type = "man" =>
                \A j \in 1 .. Len(m.captures) :
                    Landing(m, j).row = CrownRank(board[m.from.row][m.from.col].player)
                        => /\ j = Len(m.captures)
                           /\ m.to = Landing(m, j)
                           /\ m.isPromotion = TRUE

\* A man is crowned by a jump and the move stops there although the new king
\* could jump on.
C2_Witness ==
    /\ Generated
    /\ \E m \in Moves(call) :
        /\ IsCapture(m) /\ m.isPromotion
        /\ board[m.from.row][m.from.col].type = "man"
        /\ m.to.row = CrownRank(board[m.from.row][m.from.col].player)
        /\ CanJump(executeMove(board, m).board, m.to.row, m.to.col)

\* The board after the piece on cur has jumped in direction d.
Jumped(b, cur, d) ==
    [r \in Rows |-> [c \in Rows |->
        IF r = cur.row + 2 * d[1] /\ c = cur.col + 2 * d[2]
        THEN [b[cur.row][cur.col] EXCEPT !.position = Pos(r, c)]
        ELSE IF (r = cur.row /\ c = cur.col)
                    \/ (r = cur.row + d[1] /\ c = cur.col + d[2])
             THEN null
             ELSE b[r][c]]]

\* The capture sequences of the rules for the piece standing on cur of b,
\* having taken caps so far: jump while a jump is open, stop when crowned.
RECURSIVE Chains(_, _, _)
Chains(b, cur, caps) ==
    LET piece == b[cur.row][cur.col]
        open == { d \in Diagonals : JumpOpen(b, piece, cur.row, cur.col, d) }
        taken(d) == Append(caps, Pos(cur.row + d[1], cur.col + d[2]))
    IN  IF open = {} THEN {caps}
        ELSE UNION { IF piece.type = "man"
                            /\ cur.row + 2 * d[1] = CrownRank(piece.player)
                     THEN {taken(d)}
                     ELSE Chains(Jumped(b, cur, d),
                                 Pos(cur.row + 2 * d[1], cur.col + 2 * d[2]),
                                 taken(d)) : d \in open }

\* The board after move m by the rules: the captured squares and the square
\* left are empty, the mover stands on m.to, crowned on its crowning rank.
Applied(b, m) ==
    LET mover == b[m.from.row][m.from.col]
    IN  [r \in Rows |-> [c \in Rows |->
            IF r = m.to.row /\ c = m.to.col
            THEN [player |-> mover.player,
                  type |-> IF r = CrownRank(mover.player) THEN "king" ELSE mover.type,
                  position |-> Pos(r, c)]
            ELSE IF (r = m.from.row /\ c = m.from.col)
                        \/ \E j \in 1 .. Len(m.captures) : m.captures[j] = Pos(r, c)
                 THEN null
                 ELSE b[r][c]]]

CapturesFrom(c, pos) == { m.captures : m \in { x \in Moves(c) : x.from = pos } }

\* C3. Capture chains are maximal: a generated capture ends on a crowning or
\* where the mover, on the board after the move, has no jump; and the captures
\* generated for a piece are exactly the maximal chains of the rules.
C3_ChainsMaximal ==
    Generated =>
        /\ \A m \in Moves(call) :
            IsCapture(m) =>
                \/ /\ board[m.from.row][m.from.col].type = "man"
                   /\ m.to.row = CrownRank(board[m.from.row][m.from.col].player)
                \/ ~CanJump(Applied(board, m), m.to.row, m.to.col)
        /\ \A s \in Squares :
            (/\ board[s.row][s.col].player = Side(call)
             /\ SideCanJump(board, Side(call))
             /\ call.op = "getValidMovesForPiece" => call.piece.position = s)
                => CapturesFrom(call, s) = Chains(board, s, <<>>) \ {<<>>}

\* The example of the tests: the man on (7,0) takes (6,1), (4,3) and (2,5)
\* in one move and lands on (1,6).
C3_Witness ==
    /\ call.op = "getValidMovesForPiece"
    /\ call.piece = Piece("human", "man", 7, 0)
    /\ call.moves = << [from |-> Pos(7, 0), to |-> Pos(1, 6),
                        captures |-> <<Pos(6, 1), Pos(4, 3), Pos(2, 5)>>,
                        isPromotion |-> FALSE] >>

\* The hops of a capture: each jumps, in a direction allowed to the piece,
\* from where the mover stands over an opposing piece next to it onto the
\* empty square behind, and the last lands on to.
RECURSIVE HopsOk(_, _, _, _)
HopsOk(b, cur, caps, to) ==
    IF Len(caps) = 0 THEN cur = to
    ELSE LET d == <<Head(caps).row - cur.row, Head(caps).col - cur.col>>
         IN  /\ d \in Diagonals
             /\ JumpOpen(b, b[cur.row][cur.col], cur.row, cur.col, d)
             /\ HopsOk(Jumped(b, cur, d),
                       Pos(cur.row + 2 * d[1], cur.col + 2 * d[2]), Tail(caps), to)

WellFormed(b, m) ==
    /\ OnBoard(m.from.row, m.from.col)
    /\ b[m.from.row][m.from.col] # null
    /\ IF Len(m.captures) = 0
       THEN /\ OnBoard(m.to.row, m.to.col)
            /\ b[m.to.row][m.to.col] = null
            /\ <<m.to.row - m.from.row, m.to.col - m.from.col>> \in Diagonals
            /\ Allowed(b[m.from.row][m.from.col], m.to.row - m.from.row)
       ELSE /\ HopsOk(b, m.from, m.captures, m.to)
            /\ \A i, j \in 1 .. Len(m.captures) :
                    i # j => m.captures[i] # m.captures[j]

\* C4. Every generated move is well-formed.
C4_MovesWellFormed ==
    Generated => \A m \in Moves(call) : WellFormed(board, m)

\* A king's capture with a backward hop, and a man's step, were generated.
C4_Witness ==
    /\ Generated
    /\ \E m \in Moves(call) :
        /\ Len(m.captures) >= 2
        /\ board[m.from.row][m.from.col].type = "king"
        /\ \E j \in 1 .. Len(m.captures) :
            Landing(m, j).row - Landing(m, j - 1).row
                # Landing(m, 1).row - m.from.row

Count(b, player) ==
    Cardinality({ s \in Squares : b[s.row][s.col].player = player })

\* C8. Executing a generated move returns true, empties the captured squares
\* and the square left, puts the mover on m.to with that stored position,
\* changes no other square, and takes exactly the captured pieces off.
C8_LegalMoveEffect ==
    (call.op = "executeMove" /\ call.legal) =>
        LET m == call.move
            mover == call.pre[m.from.row][m.from.col]
        IN  /\ call.ret = "true"
            /\ \A s \in Squares :
                IF \E j \in 1 .. Len(m.captures) : m.captures[j] = s
                THEN board[s.row][s.col] = null
                ELSE IF s = m.to
                THEN /\ board[s.row][s.col].player = call.player
                     /\ board[s.row][s.col].player = mover.player
                     /\ board[s.row][s.col].type \in {mover.type, "king"}
                     /\ board[s.row][s.col].position = m.to
                ELSE IF s = m.from THEN board[s.row][s.col] = null
                ELSE board[s.row][s.col] = call.pre[s.row][s.col]
            /\ DOMAIN board = Rows /\ \A r \in Rows : DOMAIN board[r] = Rows
            /\ Count(board, getOpponent(call.player))
                    = Count(call.pre, getOpponent(call.player)) - Len(m.captures)
            /\ Count(board, call.player) = Count(call.pre, call.player)

\* A move taking several pieces was executed.
C8_Witness ==
    /\ call.op = "executeMove" /\ call.legal
    /\ call.ret = "true"
    /\ Len(call.move.captures) >= 2
    /\ Count(board, getOpponent(call.player)) >= 1

\* C18. The isPromotion flag is exact: a generated move, a step, a jump or
\* a chain, has isPromotion = TRUE if and only if the mover is a man and
\* m.to is on the opponent's back rank; a king's move never has it; and the
\* flag is TRUE exactly when executeMove turns the mover from man to king.
C18_PromotionFlagExact ==
    /\ Generated =>
        \A m \in Moves(call) :
            m.isPromotion <=>
                /\ board[m.from.row][m.from.col].type = "man"
                /\ m.to.row = CrownRank(board[m.from.row][m.from.col].player)
    /\ (call.op = "executeMove" /\ call.legal) =>
        (call.move.isPromotion <=>
            /\ call.pre[call.move.from.row][call.move.from.col].type = "man"
            /\ board[call.move.to.row][call.move.to.col].type = "king")

\* A man's chain of jumps ending on the back rank was executed and crowned
\* the man, with the flag set.
C18_Witness ==
    /\ call.op = "executeMove" /\ call.legal
    /\ Len(call.move.captures) >= 2
    /\ call.move.isPromotion
    /\ call.pre[call.move.from.row][call.move.from.col].type = "man"
    /\ board[call.move.to.row][call.move.to.col].type = "king"

\* The squares a piece standing on (r, c) may step to: next to it on a
\* diagonal in a row direction allowed to it, on the board and empty.
StepTargets(b, r, c) ==
    { Pos(r + d[1], c + d[2]) : d \in { e \in Diagonals :
        /\ Allowed(b[r][c], e[1])
        /\ OnBoard(r + e[1], c + e[2])
        /\ b[r + e[1]][c + e[2]] = null } }

\* C19. When the piece's owner has no capture anywhere on the board,
\* getValidMovesForPiece returns exactly one simple move for each permitted
\* direction whose target is on the board and empty, the two forward
\* diagonals for a man and all four for a king, and nothing else: no
\* backward step of a man and no step onto an occupied square.
C19_SimpleMovesExact ==
    (call.op = "getValidMovesForPiece" /\ ~SideCanJump(board, call.piece.player)) =>
        \A p \in { call.piece.position } :
            /\ \A m \in Moves(call) : m.from = p /\ m.captures = <<>>
            /\ { m.to : m \in Moves(call) } = StepTargets(board, p.row, p.col)
            /\ Len(call.moves) = Cardinality(StepTargets(board, p.row, p.col))
            /\ \A m \in Moves(call) :
                /\ board[m.to.row][m.to.col] = null
                /\ call.piece.type = "man" =>
                    m.to.row - p.row = (IF call.piece.player = "human" THEN -1 ELSE 1)

\* A king with one diagonal closed got its three steps, forward and backward.
C19_Witness ==
    /\ call.op = "getValidMovesForPiece"
    /\ ~SideCanJump(board, call.piece.player)
    /\ call.piece.type = "king"
    /\ Len(call.moves) = 3
    /\ \E m, n \in Moves(call) : m.to.row < m.from.row /\ n.to.row > n.from.row

(***************************************************************************)
(* Playing from the initial position                                       *)
(***************************************************************************)
\* Every legal move is tried in the first FullPlies plies, the first and the
\* last of the generated moves afterwards, up to MaxPlies plies.
FullPlies == 3

MaxPlies == 12

Picks(n) == IF plies < FullPlies THEN 1 .. n ELSE {1, n} \cap (1 .. n)

InitPlay ==
    /\ board = createInitialBoard
    /\ turn = "human"
    /\ plies = 0
    /\ call = NoCall
    /\ nodesEvaluated = 0
    /\ state = createInitialState
    /\ heap = NoHeap

PlayMove ==
    /\ plies < MaxPlies
    /\ \E moves \in {getAllValidMoves(board, turn)} :
        \E i \in Picks(Len(moves)) :
            \E done \in {executeMove(board, moves[i])} :
                /\ board' = done.board
                /\ call' = [op |-> "executeMove", player |-> turn,
                            pre |-> board, move |-> moves[i], ret |-> done.ret,
                                legal |-> TRUE]
    /\ turn' = getOpponent(turn)
    /\ plies' = plies + 1
    /\ UNCHANGED <<nodesEvaluated, state, heap>>

NextPlay == PlayMove

SpecPlay == InitPlay /\ [][NextPlay]_vars

\* to is k two-square diagonal jumps away from from.
JumpsAway(m, k) ==
    \E up, right \in 0 .. k :
        /\ m.to.row - m.from.row = 2 * (2 * up - k)
        /\ m.to.col - m.from.col = 2 * (2 * right - k)

Inconsistent(m) ==
    IF Len(m.captures) = 0
    THEN ~(Abs(m.to.row - m.from.row) = 1 /\ Abs(m.to.col - m.from.col) = 1)
    ELSE ~JumpsAway(m, Len(m.captures))

\* C6. executeMove rejects every geometrically inconsistent move: it returns
\* false and leaves the board as it was.
C6_RejectsInconsistent ==
    (call.op = "executeMove" /\ Inconsistent(call.move))
        => (call.ret = "false" /\ board = call.pre)

\* C7. executeMove fails only by its result: it never throws, and returns
\* true, or false with the board as it was.
C7_FailsByResultOnly ==
    call.op = "executeMove" =>
        /\ call.ret # "throw"
        /\ call.ret = "true" \/ (call.ret = "false" /\ board = call.pre)

\* C9. Board integrity is preserved by play: every board reached from the
\* initial position by legal moves of alternating sides passes validateBoard.
C9_BoardIntegrity ==
    /\ validateBoard(board)
    /\ DOMAIN board = Rows
    /\ \A r \in Rows :
        /\ DOMAIN board[r] = Rows
        /\ \A c \in Rows :
            /\ (r + c) % 2 = 0 => board[r][c] = null
            /\ board[r][c] # null => board[r][c].position = Pos(r, c)

\* A man has just captured its way onto the crown rank of a game played
\* from the initial position and stands there as a king.
C9_Witness ==
    /\ call.op = "executeMove"
    /\ plies > FullPlies
    /\ call.move.isPromotion
    /\ Len(call.move.captures) > 0
    /\ getPieceAt(board, call.move.to).type = "king"
    /\ validateBoard(board)

(***************************************************************************)
(* Specification SpecSearch: one search by Agatha on a drawn board.        *)
(***************************************************************************)
MaxSearchOthers == 2

MaxDepth == 3

SearchMoverSquares == { Pos(4, 3), Pos(7, 0) }

InitSearch ==
    /\ board \in BoardsWith(SearchMoverSquares, MaxSearchOthers)
    /\ call = NoCall
    /\ turn = "agatha"
    /\ plies = 0
    /\ nodesEvaluated = 0
    /\ state = createInitialState
    /\ heap = NoHeap

CallGetBestMove ==
    /\ call.op = "none"
    /\ \E depth \in 1 .. MaxDepth :
        \E found \in { getBestMove(board, depth) } :
            /\ call' = [op |-> "getBestMove", depth |-> depth,
                        ret |-> found.move, nodes |-> found.nodes]
            /\ nodesEvaluated' = found.nodes
    /\ UNCHANGED <<board, turn, plies, state, heap>>

CallGetBestMoveWithDepth ==
    /\ call.op = "none"
    /\ \E depth \in 1 .. MaxDepth :
        \E found \in { getBestMoveWithDepth(board, depth) } :
            /\ call' = [op |-> "getBestMoveWithDepth", depth |-> depth,
                        ret |-> found.move, nodes |-> found.nodes]
            /\ nodesEvaluated' = nodesEvaluated + found.nodes
    /\ UNCHANGED <<board, turn, plies, state, heap>>

NextSearch == CallGetBestMove \/ CallGetBestMoveWithDepth

SpecSearch == InitSearch /\ [][NextSearch]_vars

Searched == call.op \in {"getBestMove", "getBestMoveWithDepth"}

SetMax(S) == CHOOSE x \in S : \A y \in S : y <= x

SetMin(S) == CHOOSE x \in S : \A y \in S : x <= y

After(b, m) == executeMove(cloneBoard(b), m).board

RECURSIVE FullWidth(_, _, _)
\* Minimax over the same tree with the same terminal and leaf scores, every
\* move of every node searched, in no particular order.
FullWidth(b, depth, isMaximizing) ==
    The({
        IF ~end.isNull
        THEN IF isMaximizing THEN end.score + depth ELSE -end.score - depth
        ELSE IF depth = 0 THEN evaluateBoard(b, DEFAULT_WEIGHTS)
        ELSE The({
            IF moves = <<>>
            THEN IF isMaximizing THEN -WIN_SCORE + depth ELSE WIN_SCORE - depth
            ELSE The({ IF isMaximizing THEN SetMax(below) ELSE SetMin(below)
                       : below \in {{ FullWidth(After(b, moves[i]), depth - 1,
                                                ~isMaximizing) :
                                        i \in 1 .. Len(moves) }} })
            : moves \in { getAllValidMoves(b, IF isMaximizing THEN "agatha" ELSE "human") } })
        : end \in { evaluateEndGame(b, IF isMaximizing THEN "agatha" ELSE "human") } })

RECURSIVE SumTo(_, _)
SumTo(f, n) == IF n = 0 THEN 0 ELSE f[n] + SumTo(f, n - 1)

RECURSIVE FullWidthNodes(_, _, _)
\* The number of nodes of that tree below and including b.
FullWidthNodes(b, depth, isMaximizing) ==
    LET player == IF isMaximizing THEN "agatha" ELSE "human"
        moves == getAllValidMoves(b, player)
        counts == [i \in 1 .. Len(moves) |->
                        FullWidthNodes(After(b, moves[i]), depth - 1, ~isMaximizing)]
    IN  IF ~evaluateEndGame(b, player).isNull \/ depth = 0 \/ moves = <<>>
        THEN 1
        ELSE 1 + SumTo(counts, Len(moves))

\* C5. The move returned by getBestMove and getBestMoveWithDepth has the
\* greatest full-width minimax value among Agatha's legal moves: pruning and
\* move ordering do not change the value of the choice.
C5_AlphaBetaEquivalence ==
    Searched =>
        \A moves \in { getAllValidMoves(board, "agatha") } :
            moves # <<>> =>
                /\ \E i \in 1 .. Len(moves) : call.ret = moves[i]
                /\ \A best \in { FullWidth(After(board, call.ret), call.depth - 1, FALSE) } :
                    \A i \in 1 .. Len(moves) :
                        FullWidth(After(board, moves[i]), call.depth - 1, FALSE) <= best

\* A search two plies deep or more among several moves in which a cutoff
\* left part of the tree unvisited.
C5_Witness ==
    /\ Searched
    /\ call.depth >= 2
    /\ \A moves \in { getAllValidMoves(board, "agatha") } :
        /\ Len(moves) >= 2
        /\ call.nodes <
                SumTo([i \in 1 .. Len(moves) |->
                            FullWidthNodes(After(board, moves[i]), call.depth - 1, FALSE)],
                      Len(moves))

\* C10. getBestMove and getBestMoveWithDepth return null exactly when Agatha
\* has no legal move; otherwise they return one of the moves of
\* getAllValidMoves(board, 'agatha'), hence a capture when Agatha can capture.
C10_ReturnsLegalMove ==
    Searched =>
        \A moves \in { getAllValidMoves(board, "agatha") } :
            /\ call.ret = noMove <=> moves = <<>>
            /\ moves # <<>> => \E i \in 1 .. Len(moves) : call.ret = moves[i]
            /\ (moves # <<>> /\ SideCanJump(board, "agatha")) => IsCapture(call.ret)

\* Agatha has a single legal move, a capture, and the search returns it.
C10_Witness ==
    /\ Searched
    /\ Len(getAllValidMoves(board, "agatha")) = 1
    /\ SideCanJump(board, "agatha")
    /\ IsCapture(call.ret)
    /\ call.ret = getAllValidMoves(board, "agatha")[1]

(***************************************************************************)
(* Specification SpecMinimax: one call of minimax with the full window on  *)
(* a drawn board, terminal positions among them.                           *)
(***************************************************************************)
MaxMinimaxOthers == 1

\* Two boards on which a man on the edge, one step from its crown rank, has
\* its only square taken by an opposing man that can step away.
HemmedBoards ==
    { placePiece(placePiece(createEmptyBoard, 1, 0, "human", "man"),
                 0, 1, "agatha", "man"),
      placePiece(placePiece(createEmptyBoard, 6, 7, "agatha", "man"),
                 7, 6, "human", "man") }

InitMinimax ==
    /\ board \in BoardsWith(SearchMoverSquares, MaxMinimaxOthers) \cup HemmedBoards
    /\ call = NoCall
    /\ turn = "agatha"
    /\ plies = 0
    /\ nodesEvaluated = 0
    /\ state = createInitialState
    /\ heap = NoHeap

CallMinimax ==
    /\ call.op = "none"
    /\ \E depth \in 0 .. MaxDepth, isMaximizing \in BOOLEAN :
        \E found \in { minimax(board, depth, -Infinity, Infinity, isMaximizing) } :
            /\ call' = [op |-> "minimax", depth |-> depth,
                        isMaximizing |-> isMaximizing,
                        score |-> found.score, nodes |-> found.nodes]
            /\ nodesEvaluated' = nodesEvaluated + found.nodes
    /\ UNCHANGED <<board, turn, plies, state, heap>>

NextMinimax == CallMinimax

SpecMinimax == InitMinimax /\ [][NextMinimax]_vars

\* The game on b is over and lost by the player.
Lost(b, player) ==
    \/ Count(b, player) = 0
    \/ (Count(b, getOpponent(player)) > 0 /\ ~\E s \in Squares :
            /\ b[s.row][s.col].player = player
            /\ (CanJump(b, s.row, s.col) \/ CanStep(b, s.row, s.col)))

\* C11. Depth-adjusted terminal scoring: at a maximizing and at a minimizing
\* node alike, a win of Agatha scored with more remaining depth scores
\* strictly higher than one scored with less, and a loss of Agatha scored
\* with more remaining depth strictly lower than one scored with less.
C11_FasterWinsSlowerLosses ==
    call.op = "minimax" =>
        \A depth \in 0 .. MaxDepth, isMaximizing \in BOOLEAN :
            depth < call.depth =>
                \A other \in { minimax(board, depth, -Infinity, Infinity,
                                       isMaximizing).score } :
                    /\ Lost(board, "human") => call.score > other
                    /\ (Lost(board, "agatha") /\ ~Lost(board, "human"))
                            => call.score < other

(***************************************************************************)
(* Specification SpecObjects: boards as objects.  The input board is built  *)
(* first; copies are made of it and of boards returned earlier, and the     *)
(* copies are changed, as simulateMove, the move generators and the search  *)
(* do.  board keeps the input board as it was built.                        *)
(***************************************************************************)
MaxObjectOthers == 2

MaxObjectSteps == 2

InputBoard == [r \in Rows |-> r + 1]

InitObjects ==
    /\ board \in BoardsWith(SearchMoverSquares, MaxObjectOthers)
    /\ heap = allocate(NoHeap, board, <<>>).heap
    /\ call = NoCall
    /\ turn = "human"
    /\ plies = 0
    /\ nodesEvaluated = 0
    /\ state = createInitialState

\* The boards a call can be given: the input board and the board the last
\* call returned.
KnownBoards == {InputBoard} \cup (IF call.op = "none" THEN {} ELSE {call.ret})

LegalMoves(b) ==
    UNION { Moves([moves |-> getAllValidMoves(b, p)]) : p \in Players }

CallCloneBoard ==
    /\ plies < MaxObjectSteps
    /\ \E ref \in KnownBoards :
        \E copy \in { cloneBoardObjects(heap, ref) } :
            /\ heap' = copy.heap
            /\ call' = [op |-> "cloneBoard", of |-> ref, ret |-> copy.ref]
    /\ plies' = plies + 1
    /\ UNCHANGED <<board, turn, nodesEvaluated, state>>

\* simulateMove(board, move); getBestMove, minimax, evaluateMove, getTopMoves
\* and getPredictedResponse make the same two calls, cloneBoard and
\* executeMove on the copy, for each move they try.
CallSimulateMove ==
    /\ plies < MaxObjectSteps
    /\ \E ref \in KnownBoards :
        \E move \in LegalMoves(view(heap, ref)) :
            \E done \in { simulateMoveObjects(heap, ref, move) } :
                /\ heap' = done.heap
                /\ call' = [op |-> "simulateMove", of |-> ref, ret |-> done.ref]
    /\ plies' = plies + 1
    /\ UNCHANGED <<board, turn, nodesEvaluated, state>>

\* getCapturesForPiece and findMultiJumps try a jump: cloneBoard, movePiece
\* and removePieceAt on the copy.
CallGetCapturesForPiece ==
    /\ plies < MaxObjectSteps
    /\ \E ref \in KnownBoards :
        \E b \in { view(heap, ref) } :
            \E s \in Squares :
                /\ b[s.row][s.col] # null
                /\ \E jumps \in { getSingleCaptures(b, b[s.row][s.col]) } :
                    \E i \in 1 .. Len(jumps) :
                        \E copy \in { cloneBoardObjects(heap, ref) } :
                            /\ heap' = removePieceAtObjects(
                                    movePieceObjects(copy.heap, copy.ref, s, jumps[i].to),
                                    copy.ref, jumps[i].captures[1])
                            /\ call' = [op |-> "getCapturesForPiece", of |-> ref,
                                        ret |-> copy.ref]
    /\ plies' = plies + 1
    /\ UNCHANGED <<board, turn, nodesEvaluated, state>>

\* A later change to a board that cloneBoard or simulateMove returned.
ChangeReturnedBoard ==
    /\ plies < MaxObjectSteps
    /\ call.op \in {"cloneBoard", "simulateMove"}
    /\ \E move \in LegalMoves(view(heap, call.ret)) :
        /\ heap' = executeMoveObjects(heap, call.ret, move)
        /\ call' = [op |-> "executeMove", of |-> call.ret, ret |-> call.ret]
    /\ plies' = plies + 1
    /\ UNCHANGED <<board, turn, nodesEvaluated, state>>

NextObjects ==
    \/ CallCloneBoard
    \/ CallSimulateMove
    \/ CallGetCapturesForPiece
    \/ ChangeReturnedBoard

SpecObjects == InitObjects /\ [][NextObjects]_vars

\* C12. Queries and searches do not mutate the board they are given: after
\* the copies made of it and the changes made to the copies, every cell of
\* the input board holds what it held, with the same owner, rank and stored
\* position; cloneBoard returns an equal board, and a later change to a
\* returned board does not show in the board it was copied from.
C12_InputBoardUnchanged ==
    /\ view(heap, InputBoard) = board
    /\ call.op = "cloneBoard" => view(heap, call.ret) = view(heap, call.of)
    /\ \A k \in DOMAIN heap.rows : \A c \in Rows :
            (k > BOARD_SIZE /\ heap.rows[k][c] # 0) =>
                \A s \in Squares : heap.rows[InputBoard[s.row]][s.col] # heap.rows[k][c]

\* A board returned by cloneBoard or simulateMove of the input board was
\* changed by a capture afterwards and differs from the input board.
C12_Witness ==
    /\ call.op = "executeMove"
    /\ call.ret # InputBoard
    /\ Count(view(heap, call.ret), "human") + Count(view(heap, call.ret), "agatha")
            < Count(board, "human") + Count(board, "agatha")
    /\ view(heap, InputBoard) = board

(***************************************************************************)
(* A session of calls of the search entry points of ai/minimax.ts on one   *)
(* board.  nodesEvaluated is the module's counter, as getNodesEvaluated()  *)
(* returns it; call records the latest call, with the minimax calls it     *)
(* made itself.                                                            *)
(***************************************************************************)
MaxSessionOthers == 0

MaxCalls == 2

MaxEntryOthers == 1

MaxIterDepth == 4

MaxElapsed == 1

MaxCount == 2

\* The clock readings of one iterativeDeepeningSearch: the clock does not
\* run backwards.
Readings ==
    { e \in [1 .. (MaxIterDepth \div 2) -> 0 .. MaxElapsed] :
        \A i, j \in DOMAIN e : i <= j => e[i] <= e[j] }

InitSession ==
    /\ board \in BoardsWith(SearchMoverSquares, MaxSessionOthers)
    /\ call = NoCall
    /\ turn = "agatha"
    /\ plies = 0
    /\ nodesEvaluated = 0
    /\ state = createInitialState
    /\ heap = NoHeap

GetBestMove ==
    /\ \E depth \in 1 .. MaxDepth :
        \E found \in { getBestMove(board, depth) } :
            /\ call' = [op |-> "getBestMove", depth |-> depth,
                        ret |-> found.move, nodes |-> found.nodes]
            /\ nodesEvaluated' = found.nodes
    /\ UNCHANGED <<board, turn, state, heap>>

GetBestMoveWithDepth ==
    /\ \E depth \in 1 .. MaxDepth :
        \E found \in { getBestMoveWithDepth(board, depth) } :
            /\ call' = [op |-> "getBestMoveWithDepth", depth |-> depth,
                        ret |-> found.move, nodes |-> found.nodes]
            /\ nodesEvaluated' = nodesEvaluated + found.nodes
    /\ UNCHANGED <<board, turn, state, heap>>

EvaluateMove ==
    /\ \E move \in LegalMoves(board), depth \in 0 .. MaxDepth :
        \E found \in { evaluateMove(board, move, depth) } :
            /\ call' = [op |-> "evaluateMove", move |-> move, depth |-> depth,
                        ret |-> found.score, nodes |-> found.nodes]
            /\ nodesEvaluated' = nodesEvaluated + found.nodes
    /\ UNCHANGED <<board, turn, state, heap>>

GetTopMoves ==
    /\ \E player \in Players, count \in 0 .. MaxCount :
        \E found \in { getTopMoves(board, player, count) } :
            /\ call' = [op |-> "getTopMoves", player |-> player, count |-> count,
                        ret |-> found.top, nodes |-> found.nodes]
            /\ nodesEvaluated' = nodesEvaluated + found.nodes
    /\ UNCHANGED <<board, turn, state, heap>>

GetPredictedResponse ==
    /\ \E humanMove \in Moves([moves |-> getAllValidMoves(board, "human")]) :
        \E found \in { getPredictedResponse(board, humanMove) } :
            /\ call' = [op |-> "getPredictedResponse", move |-> humanMove,
                        ret |-> found.move, nodes |-> found.nodes]
            /\ nodesEvaluated' = nodesEvaluated + found.nodes
    /\ UNCHANGED <<board, turn, state, heap>>

IterativeDeepeningSearch ==
    /\ \E maxDepth \in 1 .. MaxIterDepth, maxTimeMs \in 1 .. MaxElapsed,
          elapsed \in Readings :
        \E found \in { iterativeDeepeningSearch(board, maxDepth, maxTimeMs, elapsed) } :
            /\ call' = [op |-> "iterativeDeepeningSearch", maxDepth |-> maxDepth,
                        maxTimeMs |-> maxTimeMs, elapsed |-> elapsed,
                        started |-> found.started,
                        ret |-> found.move, nodes |-> found.nodes]
            /\ nodesEvaluated' = nodesEvaluated + found.nodes
    /\ UNCHANGED <<board, turn, state, heap>>

SessionGetBestMove ==
    plies < MaxCalls /\ plies' = plies + 1 /\ GetBestMove

SessionGetBestMoveWithDepth ==
    plies < MaxCalls /\ plies' = plies + 1 /\ GetBestMoveWithDepth

SessionEvaluateMove ==
    plies < MaxCalls /\ plies' = plies + 1 /\ EvaluateMove

SessionGetTopMoves ==
    plies < MaxCalls /\ plies' = plies + 1 /\ GetTopMoves

SessionGetPredictedResponse ==
    plies < MaxCalls /\ plies' = plies + 1 /\ GetPredictedResponse

SessionIterativeDeepeningSearch ==
    plies < MaxCalls /\ plies' = plies + 1 /\ IterativeDeepeningSearch

NextSession ==
    \/ SessionGetBestMove
    \/ SessionGetBestMoveWithDepth
    \/ SessionEvaluateMove
    \/ SessionGetTopMoves
    \/ SessionGetPredictedResponse
    \/ SessionIterativeDeepeningSearch

SpecSession == InitSession /\ [][NextSession]_vars

\* C13: after any sequence of calls of the search entry points,
\* getNodesEvaluated() is the number of minimax calls made by the most
\* recent one alone.
C13_CounterOfLatestSearch ==
    call.op # "none" => nodesEvaluated = call.nodes

(***************************************************************************)
(* One call of evaluateMove, getTopMoves, getPredictedResponse or          *)
(* iterativeDeepeningSearch on a drawn board.                              *)
(***************************************************************************)
InitEntry ==
    /\ board \in BoardsWith(SearchMoverSquares, MaxEntryOthers)
    /\ call = NoCall
    /\ turn = "agatha"
    /\ plies = 0
    /\ nodesEvaluated = 0
    /\ state = createInitialState
    /\ heap = NoHeap

CallEvaluateMove == call.op = "none" /\ EvaluateMove /\ UNCHANGED plies

CallGetTopMoves == call.op = "none" /\ GetTopMoves /\ UNCHANGED plies

CallGetPredictedResponse == call.op = "none" /\ GetPredictedResponse /\ UNCHANGED plies

CallIterativeDeepeningSearch ==
    call.op = "none" /\ IterativeDeepeningSearch /\ UNCHANGED plies

NextEntry ==
    \/ CallEvaluateMove
    \/ CallGetTopMoves
    \/ CallGetPredictedResponse
    \/ CallIterativeDeepeningSearch

SpecEntry == InitEntry /\ [][NextEntry]_vars

\* C14: iterativeDeepeningSearch searches the depths 2, 4, 6, ... up to
\* maxDepth in this order, reads the clock only before starting a depth and
\* stops only when that reading has reached maxTimeMs or the next depth
\* exceeds maxDepth, and returns the result of the last depth it searched
\* (null when it searched none).
C14_LastCompletedDepth ==
    call.op = "iterativeDeepeningSearch" =>
        \A n \in { Len(call.started) } :
            /\ \A i \in 1 .. n :
                    /\ call.started[i] = 2 * i
                    /\ 2 * i <= call.maxDepth
                    /\ call.elapsed[i] < call.maxTimeMs
            /\ 2 * (n + 1) <= call.maxDepth => call.elapsed[n + 1] >= call.maxTimeMs
            /\ call.ret = IF n = 0 THEN noMove
                          ELSE getBestMoveWithDepth(board, 2 * n).move

\* Two depths were searched and the deeper one chose another move than the
\* shallower one.
C14_Witness ==
    /\ call.op = "iterativeDeepeningSearch"
    /\ Len(call.started) = 2
    /\ call.ret # noMove
    /\ call.ret # getBestMoveWithDepth(board, 2).move

\* C15: evaluateMove returns the score from the mover's point of view,
\* whichever player moves: the value of the position after the move, searched
\* with the mover's opponent to move, counted as good for the mover when
\* positive.
C15_ScoreForTheMover ==
    call.op = "evaluateMove" =>
        call.ret =
            IF board[call.move.from.row][call.move.from.col].player = "human"
            THEN -minimax(After(board, call.move), call.depth,
                          -Infinity, Infinity, TRUE).score
            ELSE minimax(After(board, call.move), call.depth,
                         -Infinity, Infinity, FALSE).score

\* The value for the player of the position after the move, searched
\* TOP_MOVES_DEPTH plies deep with the opponent to move.
ScoreOf(b, player, move) ==
    IF player = "agatha"
    THEN FullWidth(After(b, move), TOP_MOVES_DEPTH, FALSE)
    ELSE -FullWidth(After(b, move), TOP_MOVES_DEPTH, TRUE)

\* C17: getTopMoves(board, player, n) with n >= 0 returns at most n entries
\* (all of the player's moves when there are no more than n), each a
\* different move of getAllValidMoves(board, player) paired with its score,
\* in order of non-increasing score, and no move left out scores higher than
\* one returned; it returns the empty list when the player has no move.
C17_TopMoves ==
    call.op = "getTopMoves" =>
        \A moves \in { Moves([moves |-> getAllValidMoves(board, call.player)]) } :
            \A score \in { [m \in moves |-> ScoreOf(board, call.player, m)] } :
                /\ Len(call.ret) = Min(call.count, Cardinality(moves))
                /\ moves = {} => call.ret = <<>>
                /\ \A i \in 1 .. Len(call.ret) :
                        /\ call.ret[i].move \in moves
                        /\ call.ret[i].score = score[call.ret[i].move]
                        /\ \A j \in 1 .. Len(call.ret) :
                                /\ i < j => call.ret[i].score >= call.ret[j].score
                                /\ i # j => call.ret[i].move # call.ret[j].move
                        /\ \A m \in moves :
                                (\A j \in 1 .. Len(call.ret) : call.ret[j].move # m)
                                    => score[m] <= call.ret[i].score

\* Fewer entries were asked for than the player has moves, and the best
\* move is not the first one generated: a move generated earlier scores
\* lower and is left out.
C17_Witness ==
    /\ call.op = "getTopMoves"
    /\ call.count = 1
    /\ Len(call.ret) = 1
    /\ Len(getAllValidMoves(board, call.player)) >= 2
    /\ call.ret[1].move # getAllValidMoves(board, call.player)[1]
    /\ ScoreOf(board, call.player, getAllValidMoves(board, call.player)[1])
            < call.ret[1].score

(***************************************************************************)
(* One call of evaluateEndGame on a drawn board: the empty board, the      *)
(* initial board, boards of a few pieces, and two boards on which both     *)
(* sides have pieces and neither can move.                                 *)
(***************************************************************************)
MaxEndGameOthers == 2

\* Four human men on their back rank behind two ranks of Agatha men, and
\* the same position seen from the other side of the board.
BlockedBoards ==
    { placeMen(placeMen(createEmptyBoard,
                        { Pos(7, 0), Pos(7, 2), Pos(7, 4), Pos(7, 6) }, "human"),
               { Pos(6, 1), Pos(6, 3), Pos(6, 5), Pos(6, 7),
                 Pos(5, 0), Pos(5, 2), Pos(5, 4), Pos(5, 6) }, "agatha"),
      placeMen(placeMen(createEmptyBoard,
                        { Pos(0, 1), Pos(0, 3), Pos(0, 5), Pos(0, 7) }, "agatha"),
               { Pos(1, 0), Pos(1, 2), Pos(1, 4), Pos(1, 6),
                 Pos(2, 1), Pos(2, 3), Pos(2, 5), Pos(2, 7) }, "human") }

InitEndGame ==
    /\ board \in BoardsWith(MoverSquares, MaxEndGameOthers)
                    \cup BlockedBoards \cup {createEmptyBoard, createInitialBoard}
    /\ call = NoCall
    /\ turn = "agatha"
    /\ plies = 0
    /\ nodesEvaluated = 0
    /\ state = createInitialState
    /\ heap = NoHeap

CallEvaluateEndGame ==
    /\ call.op = "none"
    /\ \E player \in Players :
        \E score \in { evaluateEndGame(board, player) } :
            call' = [op |-> "evaluateEndGame", player |-> player,
                     isNull |-> score.isNull, ret |-> score.score]
    /\ UNCHANGED <<board, turn, plies, nodesEvaluated, state, heap>>

NextEndGame == CallEvaluateEndGame

SpecEndGame == InitEndGame /\ [][NextEndGame]_vars

\* The player has a piece that can step or jump.
Mobile(b, player) ==
    \E s \in Squares :
        /\ b[s.row][s.col].player = player
        /\ (CanJump(b, s.row, s.col) \/ CanStep(b, s.row, s.col))

\* The player has pieces left and the opponent has no piece or no move.
Beats(b, player) ==
    /\ Count(b, player) > 0
    /\ (Count(b, getOpponent(player)) = 0 \/ ~Mobile(b, getOpponent(player)))

\* Both sides have pieces and neither can move.
BothBlocked(b) ==
    /\ Count(b, "human") > 0 /\ Count(b, "agatha") > 0
    /\ ~Mobile(b, "human") /\ ~Mobile(b, "agatha")

\* C16 as stated: +100000 whenever the player has surviving pieces and the
\* opponent has no piece or no legal move, -100000 in the mirrored
\* situation, and none exactly when both sides have a piece and a legal move.
C16_AsStated ==
    call.op = "evaluateEndGame" =>
        /\ Beats(board, call.player) => (~call.isNull /\ call.ret = WIN_SCORE)
        /\ Beats(board, getOpponent(call.player))
                => (~call.isNull /\ call.ret = -WIN_SCORE)
        /\ call.isNull <=> \A p \in Players : Count(board, p) > 0 /\ Mobile(board, p)

\* C16, corrected: the statement holds except on boards where both sides
\* have pieces and neither has a legal move; there Agatha is the winner,
\* +100000 for player Agatha and -100000 for player human.
C16_EndGame ==
    call.op = "evaluateEndGame" =>
        /\ ~BothBlocked(board) =>
            /\ Beats(board, call.player) => (~call.isNull /\ call.ret = WIN_SCORE)
            /\ Beats(board, getOpponent(call.player))
                    => (~call.isNull /\ call.ret = -WIN_SCORE)
        /\ BothBlocked(board) =>
            /\ ~call.isNull
            /\ call.ret = IF call.player = "agatha" THEN WIN_SCORE ELSE -WIN_SCORE
        /\ call.isNull <=> \A p \in Players : Count(board, p) > 0 /\ Mobile(board, p)

\* evaluateEndGame was asked about a board on which both sides have pieces
\* and neither can move.
C16_Witness ==
    /\ call.op = "evaluateEndGame"
    /\ BothBlocked(board)
    /\ call.player = "human"
    /\ call.ret = -WIN_SCORE

(***************************************************************************)
(* The game controller: reset, selectPiece, makeMove and the read-only     *)
(* methods, called in any order on a controller just constructed.  The     *)
(* first FullMoves moves of a game are drawn from all legal moves, with    *)
(* ill-formed variants of them; later moves follow one line of play, the   *)
(* human taking the last legal move and Agatha the first, up to MaxMoves   *)
(* moves; a jump is also offered with a captures list of every piece.      *)
(***************************************************************************)
FullMoves == 1

MaxMoves == 40

DarkSquares == { s \in Squares : isPlayableSquare(s.row, s.col) }

Wide == Len(state.moveHistory) < FullMoves

\* The legal moves offered to makeMove.
LineMoves ==
    The({ IF Wide \/ moves = <<>> THEN Moves([moves |-> moves])
          ELSE { moves[IF state.currentPlayer = "human" THEN Len(moves) ELSE 1] }
          : moves \in { getAllValidMoves(board, state.currentPlayer) } })

\* Moves with the squares of a legal move and other captures.
IllFormed(m) ==
    { [m EXCEPT !.captures = IF m.captures = <<>> THEN <<m.to>> ELSE <<>>] }

\* A move of the player who is not to move, and a move from an empty square.
OutOfTurn ==
    The({ IF moves = <<>> THEN {} ELSE { moves[1] }
          : moves \in { getAllValidMoves(board, getOpponent(state.currentPlayer)) } })
        \cup { [from |-> Pos(4, 7), to |-> Pos(3, 6), captures |-> <<>>,
                isPromotion |-> FALSE] }

\* A legal jump with a captures list that names every piece on the board.
Sweeping ==
    The({ { [m EXCEPT !.captures = [i \in 1 .. Len(pieces) |-> pieces[i].position]]
            : m \in { l \in LineMoves : l.captures # <<>> } }
          : pieces \in { getPlayerPieces(board, "human")
                            \o getPlayerPieces(board, "agatha") } })

OfferedMoves ==
    LineMoves \cup OutOfTurn \cup Sweeping
        \cup (IF Wide THEN UNION { IllFormed(m) : m \in LineMoves } ELSE {})

\* The squares offered to selectPiece: a light square and, early in the
\* game, every dark square; later the squares of the line of play.
OfferedSquares ==
    { Pos(0, 0) } \cup
        (IF Wide THEN DarkSquares
         ELSE UNION { { m.from, m.to } : m \in LineMoves })

InitController ==
    /\ board = createInitialBoard
    /\ state = createInitialState
    /\ call = NoCall
    /\ turn = "human"
    /\ plies = 0
    /\ nodesEvaluated = 0
    /\ heap = NoHeap

CallReset ==
    /\ board' = createInitialBoard
    /\ state' = createInitialState
    /\ call' = [op |-> "reset", ret |-> "none", move |-> noMove]
    /\ UNCHANGED <<turn, plies, nodesEvaluated, heap>>

CallSelectPiece ==
    /\ Len(state.moveHistory) < MaxMoves
    /\ \E position \in OfferedSquares :
        \E after \in { selectPiece(board, state, position) } :
            /\ board' = after.board
            /\ state' = after.state
            /\ call' = [op |-> "selectPiece", ret |-> after.ret,
                        move |-> after.made]
    /\ UNCHANGED <<turn, plies, nodesEvaluated, heap>>

CallMakeMove ==
    /\ Len(state.moveHistory) < MaxMoves
    /\ \E move \in OfferedMoves :
        \E after \in { makeMove(board, state, move) } :
            /\ board' = after.board
            /\ state' = after.state
            /\ call' = [op |-> "makeMove", ret |-> after.ret,
                        move |-> move]
    /\ UNCHANGED <<turn, plies, nodesEvaluated, heap>>

\* The getters, getAllCurrentPlayerMoves, getMovablePieces,
\* isValidMoveDestination, getMoveToDestination, getBoardCopy,
\* getFormattedHistory and getWinnerMessage only read the state.
CallQuery ==
    /\ call' = [op |-> "query", ret |-> "none", move |-> noMove]
    /\ UNCHANGED <<board, state, turn, plies, nodesEvaluated, heap>>

NextController ==
    \/ CallReset
    \/ CallSelectPiece
    \/ CallMakeMove
    \/ CallQuery

SpecController == InitController /\ [][NextController]_vars

\* The latest call made a move: makeMove returned true, called by the user
\* or by selectPiece on a destination of the selected piece.
MadeMove(c) ==
    /\ c.ret = "true"
    /\ c.op = "makeMove" \/ (c.op = "selectPiece" /\ c.move # noMove)

\* The players of consecutive records differ and the first is the human.
Alternating(history) ==
    /\ history # <<>> => history[1].player = "human"
    /\ \A i \in 1 .. Len(history) - 1 : history[i].player # history[i + 1].player

\* A step in which a move was made appends one record, of the mover and the
\* move's squares, and passes the turn unless the game is over.
RecordsMove ==
    /\ Len(state'.moveHistory) = Len(state.moveHistory) + 1
    /\ SubSeq(state'.moveHistory, 1, Len(state.moveHistory)) = state.moveHistory
    /\ state'.moveHistory[Len(state'.moveHistory)].player = state.currentPlayer
    /\ state'.moveHistory[Len(state'.moveHistory)].from = call'.move.from
    /\ state'.moveHistory[Len(state'.moveHistory)].to = call'.move.to
    /\ state'.currentPlayer = IF state'.status = "playing"
                              THEN getOpponent(state.currentPlayer)
                              ELSE state.currentPlayer

\* A step that keeps the history and the turn, or starts a new game.
KeepsTurn ==
    IF call'.op = "reset"
    THEN state'.moveHistory = <<>> /\ state'.currentPlayer = "human"
    ELSE state'.moveHistory = state.moveHistory
            /\ state'.currentPlayer = state.currentPlayer

\* C20 as stated: each makeMove call that returns true appends exactly one
\* record (player the mover, from and to the move's, earlier records
\* unchanged) and passes the turn unless the game ends; every other
\* operation, selectPiece among them, leaves moveHistory and currentPlayer as
\* they were; the players of consecutive records differ and the first is
\* the human.
C20_AsStated ==
    /\ [][IF call'.op = "makeMove" /\ call'.ret = "true"
          THEN RecordsMove ELSE KeepsTurn]_vars
    /\ [] Alternating(state.moveHistory)

\* C20, corrected: moveHistory and currentPlayer change exactly when makeMove
\* returns true, whether the user called it or selectPiece did, on a
\* destination square of the selected piece; such a call appends exactly one
\* record (player the mover, from and to the move's, earlier records
\* unchanged) and passes the turn unless the game ends; every other call
\* leaves both as they were, reset starting a new game; the players of
\* consecutive records differ and the first is the human.
C20_TurnsAlternate ==
    /\ [][IF MadeMove(call') THEN RecordsMove ELSE KeepsTurn]_vars
    /\ [] Alternating(state.moveHistory)

\* selectPiece on a destination of the selected piece made Agatha's move,
\* after the human's.
C20_Witness ==
    /\ call.op = "selectPiece"
    /\ MadeMove(call)
    /\ Len(state.moveHistory) >= 2
    /\ state.moveHistory[Len(state.moveHistory)].player = "agatha"
    /\ state.currentPlayer = "human"

(***************************************************************************)
(* The end of a game.                                                      *)
(***************************************************************************)
GameOver == state.status \in {"human_wins", "agatha_wins"}

\* C21: once the status is human_wins or agatha_wins, every selectPiece and
\* makeMove call returns false and leaves the board, currentPlayer, status,
\* selection and moveHistory as they were; only reset returns the
\* controller to status playing, and reset gives the initial board, the
\* human to move, an empty history and 12 pieces on each side.
C21_GameOverAbsorbing ==
    [][/\ GameOver /\ call'.op \in {"selectPiece", "makeMove"} =>
            /\ call'.ret = "false"
            /\ board' = board
            /\ state' = state
       /\ GameOver /\ state'.status = "playing" => call'.op = "reset"
       /\ call'.op = "reset" =>
            /\ board' = createInitialBoard
            /\ state'.status = "playing"
            /\ state'.currentPlayer = "human"
            /\ state'.moveHistory = <<>>
            /\ state'.selectedPiece = null /\ state'.validMoves = <<>>
            /\ state'.humanPieceCount = 12 /\ state'.agathaPieceCount = 12
            /\ Cardinality({ sq \in Squares : board'[sq.row][sq.col] # null
                                /\ board'[sq.row][sq.col].player = "human" }) = 12
            /\ Cardinality({ sq \in Squares : board'[sq.row][sq.col] # null
                                /\ board'[sq.row][sq.col].player = "agatha" }) = 12]_vars

\* A finished game in which makeMove was offered a legal move of the player
\* who moved last, and returned false.
C21_Witness ==
    /\ GameOver
    /\ call.op = "makeMove" /\ call.ret = "false"
    /\ call.move \in Moves([moves |-> getAllValidMoves(board, state.currentPlayer)])

\* The number of the player's pieces on the board.
PiecesOf(b, player) ==
    Cardinality({ sq \in Squares : b[sq.row][sq.col] # null
                                    /\ b[sq.row][sq.col].player = player })

\* The player has no piece, or is the one to move and has no legal move.
Beaten(b, player, toMove) ==
    PiecesOf(b, player) = 0 \/ (toMove = player /\ ~Mobile(b, player))

\* C27: a makeMove call that returns true has applied exactly one move of
\* the current player's legal moves, with the same from, to and captures:
\* the board is the board after that legal move; a move whose captures list
\* differs from the legal move's is not applied, recorded or counted.
C27_AppliesLegalMove ==
    [][call'.op = "makeMove" /\ call'.ret = "true" =>
        \E m \in Moves([moves |-> getAllValidMoves(board, state.currentPlayer)]) :
            /\ m.from = call'.move.from
            /\ m.to = call'.move.to
            /\ m.captures = call'.move.captures
            /\ board' = executeMove(board, m).board]_vars

\* C22: while the status is playing both players have a piece and the
\* player to move has a legal move; after a makeMove that returned true the
\* status is agatha_wins exactly when the human has no piece or is next to
\* move without a legal move, and human_wins exactly when Agatha has no
\* piece or is next to move without a legal move.
C22_GameOverDetection ==
    /\ [](state.status = "playing" =>
            /\ PiecesOf(board, "human") > 0
            /\ PiecesOf(board, "agatha") > 0
            /\ Mobile(board, state.currentPlayer))
    /\ [][call'.op = "makeMove" /\ call'.ret = "true" =>
            /\ state'.status = "agatha_wins"
                    <=> Beaten(board', "human", getOpponent(state.currentPlayer))
            /\ state'.status = "human_wins"
                    <=> Beaten(board', "agatha", getOpponent(state.currentPlayer))]_vars

(***************************************************************************)
(* Keys and square names.  A string is the sequence of its UTF-16 code     *)
(* units; a number read from a string is a record of its value and of      *)
(* whether it is NaN.                                                      *)
(***************************************************************************)
Num(v) == [nan |-> FALSE, value |-> v]

NaN == [nan |-> TRUE, value |-> 0]

\* The value of a destructured array element that is missing.
undefined == [nan |-> TRUE, value |-> -1]

isDigit(ch) == ch >= 48 /\ ch <= 57

\* positionToNotation with rank row + 1.
positionToNotation_rankFromTop(pos) ==
    <<97 + pos.col, 48 + pos.row + 1>>

RECURSIVE numberToString(_)
\* `${n}` for an integer n.
numberToString(n) ==
    IF n < 0 THEN <<45>> \o numberToString(-n)
    ELSE IF n < 10 THEN <<48 + n>>
    ELSE numberToString(n \div 10) \o <<48 + (n % 10)>>

RECURSIVE digitsValue(_)
digitsValue(str) ==
    IF Len(str) = 0 THEN 0
    ELSE 10 * digitsValue(SubSeq(str, 1, Len(str) - 1)) + (str[Len(str)] - 48)

\* Number(str) for a string of digits, minus signs, commas and letters: the
\* empty string is 0, an optionally signed run of digits is its value,
\* anything else is NaN.
toNumber(str) ==
    IF Len(str) = 0 THEN Num(0)
    ELSE IF \A k \in 1 .. Len(str) : isDigit(str[k]) THEN Num(digitsValue(str))
    ELSE IF Len(str) > 1 /\ str[1] = 45
            /\ \A k \in 2 .. Len(str) : isDigit(str[k])
    THEN Num(-digitsValue(Tail(str)))
    ELSE NaN

RECURSIVE split(_, _)
\* str.split(sep) for a separator of one code unit.
split(str, sep) ==
    IF \A k \in 1 .. Len(str) : str[k] # sep THEN <<str>>
    ELSE The({ <<SubSeq(str, 1, first - 1)>>
                    \o split(SubSeq(str, first + 1, Len(str)), sep)
               : first \in { CHOOSE k \in 1 .. Len(str) :
                                /\ str[k] = sep
                                /\ \A j \in 1 .. k - 1 : str[j] # sep } })

positionToKey(pos) ==
    numberToString(pos.row) \o <<44>> \o numberToString(pos.col)

keyToPosition(key) ==
    The({ [row |-> IF Len(parts) >= 1 THEN toNumber(parts[1]) ELSE undefined,
           col |-> IF Len(parts) >= 2 THEN toNumber(parts[2]) ELSE undefined]
          : parts \in { split(key, 44) } })

positionToNotation(pos) ==
    <<(97 + pos.col) % 65536>> \o numberToString(BOARD_SIZE - pos.row)

\* parseInt(ch, 10) for a string of one code unit.
parseInt(ch) == IF isDigit(ch) THEN Num(ch - 48) ELSE NaN

\* notationToPosition(notation): the position, or null; a comparison with
\* NaN is false, so that a NaN row is not a valid position.
notationToPosition(notation) ==
    IF Len(notation) # 2 THEN null.position
    ELSE The({ IF ~row.nan /\ isValidPosition(Pos(BOARD_SIZE - row.value, col))
               THEN Pos(BOARD_SIZE - row.value, col)
               ELSE null.position
               : row \in { parseInt(notation[2]) }, col \in { notation[1] - 97 } })

MaxText == 3

\* The code units of ` a h i 0 1 8 9 A and the space.
Alphabet == {96, 97, 104, 105, 48, 49, 56, 57, 65, 32}

Texts == UNION { [1 .. n -> Alphabet] : n \in 0 .. MaxText }

InitNotation ==
    /\ board = createEmptyBoard
    /\ call = NoCall
    /\ turn = "human"
    /\ plies = 0
    /\ nodesEvaluated = 0
    /\ state = createInitialState
    /\ heap = NoHeap

CallKeyRoundTrip ==
    /\ call.op = "none"
    /\ \E pos \in Squares :
        call' = [op |-> "keyToPosition", pos |-> pos, text |-> positionToKey(pos),
                 ret |-> keyToPosition(positionToKey(pos))]
    /\ UNCHANGED <<board, turn, plies, nodesEvaluated, state, heap>>

CallNotationRoundTrip ==
    /\ call.op = "none"
    /\ \E pos \in Squares :
        call' = [op |-> "positionToNotation", pos |-> pos,
                 text |-> positionToNotation(pos),
                 ret |-> notationToPosition(positionToNotation(pos))]
    /\ UNCHANGED <<board, turn, plies, nodesEvaluated, state, heap>>

CallNotationToPosition ==
    /\ call.op = "none"
    /\ \E text \in Texts :
        call' = [op |-> "notationToPosition", text |-> text,
                 ret |-> notationToPosition(text)]
    /\ UNCHANGED <<board, turn, plies, nodesEvaluated, state, heap>>

NextNotation ==
    \/ CallKeyRoundTrip
    \/ CallNotationRoundTrip
    \/ CallNotationToPosition

SpecNotation == InitNotation /\ [][NextNotation]_vars

\* The two-character names a1 .. h8.
SquareNames == { <<file, rank>> : file \in 97 .. 104, rank \in 49 .. 56 }

\* C23: for every position with 0 <= row, col < 8 the key converts back to
\* the position, and the square name, whose file letter is a..h for column
\* 0..7 and whose rank is 8 - row, converts back to the position;
\* notationToPosition returns none for every string that is not one of the
\* two-character names a1 .. h8.
C23_RoundTrips ==
    /\ call.op = "keyToPosition" =>
            call.ret = [row |-> Num(call.pos.row), col |-> Num(call.pos.col)]
    /\ call.op = "positionToNotation" =>
            /\ call.text = <<97 + call.pos.col, 48 + (8 - call.pos.row)>>
            /\ call.ret = call.pos
    /\ call.op = "notationToPosition" /\ call.text \notin SquareNames =>
            call.ret = null.position

\* The name h8 was read back as row 0, column 7.
C23_Witness ==
    /\ call.op = "positionToNotation"
    /\ call.pos = Pos(0, 7)
    /\ call.text = <<104, 56>>
    /\ call.ret = Pos(0, 7)

(***************************************************************************)
(* The evaluator: one call of evaluateBoard on an input board.  The board   *)
(* holds one piece of a player on a central square and up to MaxEvalOthers *)
(* pieces of the other player near the corners and edges, of either type,  *)
(* or is the initial board; the squares are closed under the half-turn of  *)
(* the board.                                                              *)
(***************************************************************************)
MaxEvalOthers == 3

LoneSquares == { Pos(3, 4), Pos(4, 3), Pos(1, 4), Pos(6, 3), Pos(3, 2), Pos(4, 5) }

GroupSquares ==
    { Pos(0, 1), Pos(7, 6), Pos(1, 0), Pos(6, 7), Pos(1, 2), Pos(6, 5),
      Pos(0, 7), Pos(7, 0), Pos(2, 3), Pos(5, 4) }

RECURSIVE placeTyped(_, _, _)
\* placePiece for every square of the domain of types, with its type.
placeTyped(b, types, player) ==
    IF DOMAIN types = {} THEN b
    ELSE The({ placeTyped(placePiece(b, sq.row, sq.col, player, types[sq]),
                          [x \in DOMAIN types \ {sq} |-> types[x]], player)
               : sq \in { CHOOSE x \in DOMAIN types : TRUE } })

EvalBoards ==
    { placeTyped(placePiece(createEmptyBoard, x[1].row, x[1].col, x[2], x[3]),
                 x[4], getOpponent(x[2]))
        : x \in LoneSquares \X Players \X PieceTypes
                \X UNION { [g -> PieceTypes] :
                            g \in { o \in SUBSET GroupSquares :
                                        Cardinality(o) <= MaxEvalOthers } } }
        \cup { createInitialBoard }

\* The default weights and weights that are all different.
WeightChoices ==
    { DEFAULT_WEIGHTS,
      [pieceValue |-> 7, kingValue |-> 11, centerControl |-> 4,
       advancement |-> 3, backRowDefense |-> 5, mobilityBonus |-> 13] }

InitEvaluate ==
    /\ board \in EvalBoards
    /\ call = NoCall
    /\ turn = "human"
    /\ plies = 0
    /\ nodesEvaluated = 0
    /\ state = createInitialState
    /\ heap = NoHeap

CallEvaluateBoard ==
    /\ call.op = "none"
    /\ \E weights \in WeightChoices :
        call' = [op |-> "evaluateBoard", weights |-> weights,
                 ret |-> evaluateBoard(board, weights)]
    /\ UNCHANGED <<board, turn, plies, nodesEvaluated, state, heap>>

NextEvaluate == CallEvaluateBoard

SpecEvaluate == InitEvaluate /\ [][NextEvaluate]_vars

\* C24: with the default weights, on a board where one side has exactly 3
\* pieces and the other exactly 1, of any ranks, evaluateBoard is strictly
\* positive when Agatha has the 3 pieces and strictly negative when the
\* human has.
C24_MaterialDominates ==
    call.op = "evaluateBoard" /\ call.weights = DEFAULT_WEIGHTS =>
        /\ PiecesOf(board, "agatha") = 3 /\ PiecesOf(board, "human") = 1
                => call.ret > 0
        /\ PiecesOf(board, "human") = 3 /\ PiecesOf(board, "agatha") = 1
                => call.ret < 0

\* Three human men against an Agatha king in the centre that has a jump:
\* the score is negative.
C24_Witness ==
    /\ call.op = "evaluateBoard" /\ call.weights = DEFAULT_WEIGHTS
    /\ PiecesOf(board, "human") = 3 /\ PiecesOf(board, "agatha") = 1
    /\ board[3][4].player = "agatha" /\ board[3][4].type = "king"
    /\ board[2][3].type = "man"
    /\ \A sq \in Squares : board[sq.row][sq.col].player = "human"
                                => board[sq.row][sq.col].type = "man"
    /\ call.ret < 0

\* The board turned by 180 degrees with the owner of every piece swapped and
\* its rank kept.
mirror(b) ==
    [r \in Rows |-> [c \in Rows |->
        IF b[7 - r][7 - c] = null THEN null
        ELSE Piece(getOpponent(b[7 - r][7 - c].player), b[7 - r][7 - c].type, r, c)]]

\* C30: evaluateBoard of the mirrored board is the negation of evaluateBoard
\* of the board, for the same weights; the initial board scores 0, within
\* the bound |score| < 50.
C30_MirrorSymmetry ==
    call.op = "evaluateBoard" =>
        /\ evaluateBoard(mirror(board), call.weights) = -call.ret
        /\ board = createInitialBoard => call.ret = 0 /\ Abs(call.ret) < 50

\* A board that is not its own mirror image, with one human piece behind
\* which two others stand, scored other than 0 with weights other than the
\* default.
C30_Witness ==
    /\ call.op = "evaluateBoard"
    /\ call.weights # DEFAULT_WEIGHTS
    /\ mirror(board) # board
    /\ call.ret # 0
    /\ board[1][0].player = "human" /\ board[1][2].player = "human"
    /\ board[0][1].player = "human"

(***************************************************************************)
(* The move generators compared.                                           *)
(***************************************************************************)
RECURSIVE PerPiece(_, _, _)
\* The lists getValidMovesForPiece gives for the player's pieces on the
\* squares from number k on, rows first, one after the other.
PerPiece(b, player, k) ==
    IF k >= BOARD_SIZE * BOARD_SIZE THEN <<>>
    ELSE (IF b[k \div BOARD_SIZE][k % BOARD_SIZE].player = player
          THEN getValidMovesForPiece(b, b[k \div BOARD_SIZE][k % BOARD_SIZE])
          ELSE <<>>)
            \o PerPiece(b, player, k + 1)

\* C25: getAllValidMoves(board, P) is the concatenation, over P's pieces in
\* row-major order, of getValidMovesForPiece(board, piece), move for move
\* with the same from, to, captures and isPromotion.
C25_GeneratorsAgree ==
    call.op = "getAllValidMoves" => call.moves = PerPiece(board, call.player, 0)

\* The player has three pieces or more, one of them jumps and another, that
\* could step, has no move in the list.
C25_Witness ==
    /\ call.op = "getAllValidMoves"
    /\ PiecesOf(board, call.player) >= 3
    /\ call.moves # <<>>
    /\ call.moves[1].captures # <<>>
    /\ \E sq \in Squares :
        /\ board[sq.row][sq.col].player = call.player
        /\ CanStep(board, sq.row, sq.col)
        /\ \A i \in 1 .. Len(call.moves) : call.moves[i].from # sq

(***************************************************************************)
(* The depth budget: one call of getBestMove, getBestMoveWithDepth or      *)
(* evaluateMove with a depth from 0 on.  A search that passes its budget   *)
(* ends only where the game does, so the boards are ones on which every    *)
(* game is short: the human's back rank and the two ranks before it are    *)
(* full and cannot move, Agatha has one more man, two or three steps from  *)
(* the blocked ranks, and the human one more man.                          *)
(***************************************************************************)
MaxBudget == 2

BudgetBoards ==
    { placePiece(placePiece(
            placeMen(placeMen(createEmptyBoard,
                              { Pos(7, 0), Pos(7, 2), Pos(7, 4), Pos(7, 6) }, "human"),
                     { Pos(6, 1), Pos(6, 3), Pos(6, 5), Pos(6, 7),
                       Pos(5, 0), Pos(5, 2), Pos(5, 4), Pos(5, 6) }, "agatha"),
            a.row, a.col, "agatha", "man"),
        h.row, h.col, "human", "man")
      : a \in { Pos(2, 1), Pos(2, 3), Pos(2, 5), Pos(1, 2), Pos(1, 4) },
        h \in { Pos(4, 7), Pos(4, 5), Pos(3, 0), Pos(3, 6), Pos(4, 1) } }

InitBudget ==
    /\ board \in BudgetBoards
    /\ call = NoCall
    /\ turn = "agatha"
    /\ plies = 0
    /\ nodesEvaluated = 0
    /\ state = createInitialState
    /\ heap = NoHeap

BudgetGetBestMove ==
    /\ call.op = "none"
    /\ \E depth \in 0 .. MaxBudget :
        \E found \in { getBestMove(board, depth) } :
            /\ call' = [op |-> "getBestMove", depth |-> depth,
                        ret |-> found.move, nodes |-> found.nodes]
            /\ nodesEvaluated' = found.nodes
    /\ UNCHANGED <<board, turn, plies, state, heap>>

BudgetGetBestMoveWithDepth ==
    /\ call.op = "none"
    /\ \E depth \in 0 .. MaxBudget :
        \E found \in { getBestMoveWithDepth(board, depth) } :
            /\ call' = [op |-> "getBestMoveWithDepth", depth |-> depth,
                        ret |-> found.move, nodes |-> found.nodes]
            /\ nodesEvaluated' = nodesEvaluated + found.nodes
    /\ UNCHANGED <<board, turn, plies, state, heap>>

BudgetEvaluateMove ==
    /\ call.op = "none"
    /\ \E move \in LegalMoves(board), depth \in 0 .. MaxBudget :
        \E found \in { evaluateMove(board, move, depth) } :
            /\ call' = [op |-> "evaluateMove", move |-> move, depth |-> depth,
                        ret |-> found.score, nodes |-> found.nodes]
            /\ nodesEvaluated' = nodesEvaluated + found.nodes
    /\ UNCHANGED <<board, turn, plies, state, heap>>

NextBudget ==
    \/ BudgetGetBestMove
    \/ BudgetGetBestMoveWithDepth
    \/ BudgetEvaluateMove

SpecBudget == InitBudget /\ [][NextBudget]_vars

RECURSIVE Within(_, _, _)
\* The number of positions on the lines of play of 1 to n plies from b, the
\* sides moving in turn.
Within(b, isMaximizing, n) ==
    IF n <= 0 THEN 0
    ELSE The({ SumTo([i \in 1 .. Len(moves) |->
                        1 + Within(After(b, moves[i]), ~isMaximizing, n - 1)],
                     Len(moves))
               : moves \in { getAllValidMoves(b, IF isMaximizing THEN "agatha"
                                                 ELSE "human") } })

\* C26: for every depth >= 0 passed to getBestMove, getBestMoveWithDepth or
\* evaluateMove the search visits no position more than depth plies below
\* the root position (for evaluateMove the position after the move): the
\* minimax calls are no more than the positions within depth plies.
C26_DepthBudget ==
    /\ call.op \in {"getBestMove", "getBestMoveWithDepth"} =>
            call.nodes <= Within(board, TRUE, call.depth)
    /\ call.op = "evaluateMove" =>
            call.nodes <= 1 + Within(After(board, call.move), TRUE, call.depth)

(***************************************************************************)
(* The search and the controller on the end of the game.                   *)
(***************************************************************************)
SideToMove == IF call.isMaximizing THEN "agatha" ELSE "human"

\* C28: minimax scores a node as terminal only when the side to move there
\* has no pieces or no legal move, as _checkGameOver ends the game: where
\* both sides have pieces and the side to move has a legal move the node is
\* searched further, also when the side that has just moved is immobile.
C28_TerminalAsController ==
    /\ call.op = "minimax"
    /\ call.depth >= 1
    /\ PiecesOf(board, "human") > 0
    /\ PiecesOf(board, "agatha") > 0
    /\ Mobile(board, SideToMove)
    => call.nodes > 1

\* C29: iterativeDeepeningSearch returns no move only when Agatha has no
\* legal move on the given board: for every maxDepth and every time budget,
\* when getAllValidMoves(board, 'agatha') is not empty the call returns one of
\* those moves.
C29_MoveWheneverOneExists ==
    /\ call.op = "iterativeDeepeningSearch"
    /\ getAllValidMoves(board, "agatha") # <<>>
    => /\ call.ret # noMove
       /\ call.ret \in Moves([moves |-> getAllValidMoves(board, "agatha")])

====
